---- MODULE Spec2Model ----
(***************************************************************************)
(* Shipping-program execution and reconciliation: the production_logs and  *)
(* shipping_program tables with their AFTER INSERT triggers, the entry     *)
(* form's submit handler, the logistics monitor's status classifier and    *)
(* the reporting rollups.                                                  *)
(*                                                                         *)
(* Quantities of tonnage are integers in thousandths of a tonne, the scale *)
(* of the numeric(.., 3) columns.  Instants are minutes since              *)
(* 2023-01-01 00:00 in the session time zone (a zone without DST), which   *)
(* is also the one the browsers run in.                                    *)
(***************************************************************************)
EXTENDS Integers, Sequences, FiniteSets, TLC

VARIABLES
  shipping_program,   \* committed rows of shipping_program, keyed by file_number (unique)
  production_logs,    \* committed rows of production_logs; a row's id is its index
  txn,                \* per client: the INSERT transaction in flight
  rowLock,            \* per shipping_program row: the transaction holding its row lock
  response,           \* per client: what the last submit returned
  accepted,           \* history: per committed insert, the row as inserted
  now,                \* the store's clock, an index into Clock
  data,               \* LogisticsMonitor: the dashboard rows of the last fetch
  fetched,            \* LogisticsMonitor: the programs read by step 1 of fetchData
  live,               \* LiveDashboard: the logs fetched and the memo over them
  ui,                 \* per client: the session and the entry form's state
  sortField,          \* LogisticsMonitor: the column the table is sorted by
  sortDirection,      \* LogisticsMonitor: asc or desc
  metrics,            \* OperatorHUD, per client: the rows fetched and their totals
  schedule            \* ProgramView: the programs read and the rows shown

vars == <<shipping_program, production_logs, txn, rowLock, response, accepted,
          now, data, fetched, live, ui, sortField, sortDirection, metrics, schedule>>

(***************************************************************************)
(* Bounds                                                                  *)
(***************************************************************************)
MaxLogs == 2

Clients == {"op1", "op2"}

None == "none"

\* SQL NULL
NULL == "null"

(***************************************************************************)
(* Column domains of the schema                                            *)
(***************************************************************************)
Categories == {"EXPORT", "LOCAL", "DEBARDAGE"}

Shifts == {"MORNING", "AFTERNOON", "NIGHT", "EVENING"}

StoredStatuses == {"PENDING", "IN_PROGRESS", "COMPLETED"}

\* String.prototype.toUpperCase on the shift values the form can hold.
toUpperCase(s) ==
  CASE s = "morning" -> "MORNING"
    [] s = "afternoon" -> "AFTERNOON"
    [] s = "night" -> "NIGHT"
    [] s = "evening" -> "EVENING"
    [] OTHER -> s

\* String.prototype.toLowerCase on the stored shift values.
toLowerCase(s) ==
  CASE s = "MORNING" -> "morning"
    [] s = "AFTERNOON" -> "afternoon"
    [] s = "NIGHT" -> "night"
    [] s = "EVENING" -> "evening"
    [] OTHER -> s

(***************************************************************************)
(* calculateTonnage: trucks * units * weight, each missing value read as 0 *)
(***************************************************************************)
calculateTonnage(truckCount, unitsPerTruck, weightPerUnit) ==
  truckCount * unitsPerTruck * weightPerUnit

(***************************************************************************)
(* Text: file numbers and search terms as sequences of characters          *)
(***************************************************************************)
\* The characters of the strings that occur as file numbers and search terms.
Chars(str) ==
  CASE str = "" -> <<>>
    [] str = "D" -> <<"D">>
    [] str = "d" -> <<"d">>
    [] str = "1" -> <<"1">>
    [] str = "D1" -> <<"D", "1">>
    [] str = "d1" -> <<"d", "1">>
    [] str = "D2" -> <<"D", "2">>
    [] str = "d2" -> <<"d", "2">>
    [] str = "DX" -> <<"D", "X">>
    [] str = "dx" -> <<"d", "x">>

LowerChar(ch) ==
  CASE ch = "D" -> "d"
    [] ch = "X" -> "x"
    [] OTHER -> ch

\* lower(str) of Postgres and String.prototype.toLowerCase, on characters.
LowerChars(chars) == [i \in DOMAIN chars |-> LowerChar(chars[i])]

\* String.prototype.includes
includes(str, searchString) ==
  \E i \in 0..(Len(str) - Len(searchString)) :
    SubSeq(str, i + 1, i + Len(searchString)) = searchString

\* value ILIKE pattern, for a pattern without the wildcards % and _ : the whole
\* value matches the whole pattern, letter case ignored.
ilike(value, pattern) == LowerChars(Chars(value)) = LowerChars(Chars(pattern))

(***************************************************************************)
(* The calendar of the session time zone                                   *)
(***************************************************************************)
IsLeap(y) == (y % 4 = 0 /\ y % 100 # 0) \/ y % 400 = 0

DaysInMonth(y, m) ==
  IF m = 2 THEN (IF IsLeap(y) THEN 29 ELSE 28)
  ELSE IF m \in {4, 6, 9, 11} THEN 30 ELSE 31

RECURSIVE DateFrom(_, _, _)
\* The date n days after the first of month m of year y.
DateFrom(y, m, n) ==
  IF n < DaysInMonth(y, m) THEN [year |-> y, month |-> m, day |-> n + 1]
  ELSE IF m = 12 THEN DateFrom(y + 1, 1, n - DaysInMonth(y, m))
  ELSE DateFrom(y, m + 1, n - DaysInMonth(y, m))

\* created_at::date
DateOf(ts) == DateFrom(2023, 1, ts \div 1440)

\* EXTRACT(HOUR FROM created_at)
HourOf(ts) == (ts % 1440) \div 60

RECURSIVE DaysBeforeMonth(_, _)
\* The days from 2023-01-01 to the first of month m of year y; month 0 is the
\* December before.
DaysBeforeMonth(y, m) ==
  IF m = 0 THEN DaysBeforeMonth(y - 1, 12)
  ELSE IF y = 2023 /\ m = 1 THEN 0
  ELSE IF m = 1 THEN DaysBeforeMonth(y - 1, 12) + 31
  ELSE DaysBeforeMonth(y, m - 1) + DaysInMonth(y, m - 1)

\* The instant of a wall-clock date and time; a day past the end of the month
\* runs over into the next month, as in a JavaScript Date.
Instant(y, m, d, hh, mi) == ((DaysBeforeMonth(y, m) + d - 1) * 24 + hh) * 60 + mi

(***************************************************************************)
(* The store                                                               *)
(***************************************************************************)
\* The instants the store's clock passes through.
Clock ==
  <<Instant(2024, 1, 1, 5, 0), Instant(2024, 3, 1, 5, 59), Instant(2024, 6, 2, 5, 30),
    Instant(2024, 6, 2, 6, 1)>>

\* The shipping plan as imported.
ImportedPrograms(status2) ==
  [f \in {"D1", "D2"} |->
     IF f = "D1"
     THEN [file_number |-> "D1", platform_section |-> "BIG_BAG",
           planned_count |-> 12, planned_quantity |-> 288000, status |-> "PENDING"]
     ELSE [file_number |-> "D2", platform_section |-> "50KG",
           planned_count |-> 3, planned_quantity |-> 72000, status |-> status2]]

\* The column checks of production_logs.
CheckConstraints(row) ==
  /\ row.category \in Categories
  /\ row.shift \in Shifts
  /\ row.truck_count > 0

\* The shipping_program rows as the transaction of client c sees them when it
\* updates: its own uncommitted versions over the latest committed ones.
VisibleProgram(c) ==
  [f \in DOMAIN shipping_program |->
     IF f \in DOMAIN txn[c].writes THEN txn[c].writes[f] ELSE shipping_program[f]]

\* An UPDATE takes the row lock of each row it rewrites and waits while another
\* transaction holds it.
RowAvailable_unlocked(c, f) == TRUE

RowAvailable(c, f) == rowLock[f] \in {None, c}

\* decrease_container_count: the rows its UPDATE rewrites, and whether it raises.
decrease_container_count_clamped(table, new) ==
  [raised |-> FALSE,
   rows |-> [f \in {g \in DOMAIN table : g = new.file_number} |->
               [table[f] EXCEPT !.planned_count =
                  IF @ - new.truck_count < 0 THEN 0 ELSE @ - new.truck_count]]]

decrease_container_count_strict(table, new) ==
  [raised |-> {g \in DOMAIN table : g = new.file_number} = {},
   rows |-> [f \in {g \in DOMAIN table : g = new.file_number} |->
               [table[f] EXCEPT !.planned_count = @ - new.truck_count]]]

decrease_container_count_ilike(table, new) ==
  [raised |-> FALSE,
   rows |-> [f \in {g \in DOMAIN table : ilike(g, new.file_number)} |->
               [table[f] EXCEPT !.planned_count = @ - new.truck_count]]]

decrease_container_count(table, new) ==
  [raised |-> FALSE,
   rows |-> [f \in {g \in DOMAIN table : g = new.file_number} |->
               [table[f] EXCEPT !.planned_count = @ - new.truck_count]]]

\* auto_activate_program: the rows its UPDATE rewrites, and whether it raises.
auto_activate_program_never(table, new) ==
  [raised |-> FALSE,
   rows |-> [f \in {g \in DOMAIN table : g = new.file_number
                                          /\ table[g].status = "IN_PROGRESS"} |->
               [table[f] EXCEPT !.status = "IN_PROGRESS"]]]

auto_activate_program_anyStatus(table, new) ==
  [raised |-> FALSE,
   rows |-> [f \in {g \in DOMAIN table : g = new.file_number} |->
               [table[f] EXCEPT !.status = "IN_PROGRESS"]]]

auto_activate_program(table, new) ==
  [raised |-> FALSE,
   rows |-> [f \in {g \in DOMAIN table : g = new.file_number
                                          /\ table[g].status = "PENDING"} |->
               [table[f] EXCEPT !.status = "IN_PROGRESS"]]]

\* No row: the value of a transaction's new while no INSERT is in flight.
NoRow ==
  [category |-> None, shift |-> None, platform |-> None, truck_count |-> 0,
   units_per_truck |-> 0, weight_per_unit |-> 0, total_tonnage |-> 0,
   file_number |-> "", created_at |-> 0, user_id |-> NULL]

IdleTxn == [pc |-> "idle", new |-> NoRow, writes |-> <<>>]

InFlight == {c \in Clients : txn[c].pc # "idle"}

\* One AFTER INSERT ... FOR EACH ROW trigger of the transaction of client c:
\* `fn` is the trigger function's result, `next` the step that follows it.
FireTrigger(c, fn, next) ==
  IF fn.raised
  THEN \* the statement fails: the transaction is rolled back
       /\ txn' = [txn EXCEPT ![c] = IdleTxn]
       /\ rowLock' = [f \in DOMAIN rowLock |-> IF rowLock[f] = c THEN None ELSE rowLock[f]]
       /\ response' = [response EXCEPT ![c] = "error"]
  ELSE /\ \A f \in DOMAIN fn.rows : RowAvailable(c, f)
       /\ txn' = [txn EXCEPT ![c].pc = next,
                             ![c].writes = [f \in DOMAIN fn.rows \cup DOMAIN @ |->
                                              IF f \in DOMAIN fn.rows THEN fn.rows[f] ELSE @[f]]]
       /\ rowLock' = [f \in DOMAIN rowLock |-> IF f \in DOMAIN fn.rows THEN c ELSE rowLock[f]]
       /\ UNCHANGED response

\* Triggers of one kind fire in the order of their names:
\* trigger_activate_program, then update_planned_count_trigger.
trigger_activate_program(c) ==
  /\ txn[c].pc = "trigger_activate_program"
  /\ FireTrigger(c, auto_activate_program(VisibleProgram(c), txn[c].new),
                 "update_planned_count_trigger")
  /\ UNCHANGED <<shipping_program, production_logs, accepted, now, data, fetched, live, ui,
                 sortField, sortDirection, metrics, schedule>>

update_planned_count_trigger(c) ==
  /\ txn[c].pc = "update_planned_count_trigger"
  /\ FireTrigger(c, decrease_container_count(VisibleProgram(c), txn[c].new), "commit")
  /\ UNCHANGED <<shipping_program, production_logs, accepted, now, data, fetched, live, ui,
                 sortField, sortDirection, metrics, schedule>>

\* The INSERT statement's transaction commits: the row and the trigger's row
\* versions become visible together, the row locks are released, and the
\* client's await returns { error: null }.
Commit(c) ==
  /\ txn[c].pc = "commit"
  /\ production_logs' = Append(production_logs, txn[c].new)
  /\ shipping_program' = VisibleProgram(c)
  /\ rowLock' = [f \in DOMAIN rowLock |-> IF rowLock[f] = c THEN None ELSE rowLock[f]]
  /\ accepted' = Append(accepted,
                   txn[c].new @@
                   [overlapped |-> \E d \in InFlight \ {c} :
                                      txn[d].new.file_number = txn[c].new.file_number])
  /\ txn' = [txn EXCEPT ![c] = IdleTxn]
  /\ response' = [response EXCEPT ![c] = "ok"]
  /\ UNCHANGED <<now, data, fetched, live, ui,
                 sortField, sortDirection, metrics, schedule>>

\* The transaction commits but its answer does not reach the client (the
\* connection drops): the client's await rejects and handleSubmit takes its
\* catch branch.
Commit_responseLost(c) ==
  /\ txn[c].pc = "commit"
  /\ production_logs' = Append(production_logs, txn[c].new)
  /\ shipping_program' = VisibleProgram(c)
  /\ rowLock' = [f \in DOMAIN rowLock |-> IF rowLock[f] = c THEN None ELSE rowLock[f]]
  /\ accepted' = Append(accepted,
                   txn[c].new @@
                   [overlapped |-> \E d \in InFlight \ {c} :
                                      txn[d].new.file_number = txn[c].new.file_number])
  /\ txn' = [txn EXCEPT ![c] = IdleTxn]
  /\ response' = [response EXCEPT ![c] = "error"]
  /\ UNCHANGED <<now, data, fetched, live, ui,
                 sortField, sortDirection, metrics, schedule>>

(***************************************************************************)
(* The entry form's submit handler                                         *)
(***************************************************************************)
\* handleSubmit builds the payload from the form fields.
Payload(formData) ==
  [category |-> formData.category,
   shift |-> toUpperCase(formData.shift),
   platform |-> formData.platform,
   truck_count |-> formData.truck_count,
   units_per_truck |-> formData.units_per_truck,
   weight_per_unit |-> formData.weight_per_unit,
   total_tonnage |-> calculateTonnage(formData.truck_count, formData.units_per_truck,
                                      formData.weight_per_unit),
   file_number |-> formData.file_number]

\* The form fields as populated from the log under edit (initialData).
FormOf(log) ==
  [category |-> log.category,
   shift |-> toLowerCase(log.shift),
   platform |-> log.platform,
   truck_count |-> log.truck_count,
   units_per_truck |-> log.units_per_truck,
   weight_per_unit |-> log.weight_per_unit,
   file_number |-> log.file_number]

\* supabase.from('production_logs').insert([payload]): the store checks the
\* row, stamps created_at with now() and opens the statement's transaction;
\* the handler awaits its outcome.
insert(c, formData) ==
  /\ txn[c].pc = "idle"
  /\ Len(production_logs) + Cardinality(InFlight) < MaxLogs
  /\ LET row == Payload(formData) @@ [created_at |-> Clock[now], user_id |-> NULL]
     IN IF CheckConstraints(row)
        THEN /\ txn' = [txn EXCEPT ![c] = [pc |-> "trigger_activate_program",
                                           new |-> row, writes |-> <<>>]]
             /\ response' = [response EXCEPT ![c] = None]
        ELSE /\ response' = [response EXCEPT ![c] = "error"]
             /\ UNCHANGED txn

\* handleSubmit of a form whose fields are formData, the form's own state
\* left out.
handleSubmitInsert(c, formData) ==
  /\ insert(c, formData)
  /\ UNCHANGED <<shipping_program, production_logs, rowLock, accepted, now, data, fetched, live, ui,
                 sortField, sortDirection, metrics, schedule>>

\* handleSubmit, update branch: update(payload).eq('id', initialData.id), one
\* statement on production_logs, on which no UPDATE trigger is defined.
handleSubmitUpdate_refires(c, id, truck_count) ==
  /\ txn[c].pc = "idle"
  /\ id \in 1..Len(production_logs)
  /\ LET formData == [FormOf(production_logs[id]) EXCEPT !.truck_count = truck_count]
         row == Payload(formData) @@ [created_at |-> production_logs[id].created_at,
                                      user_id |-> production_logs[id].user_id]
         fn == decrease_container_count(shipping_program, row)
     IN IF CheckConstraints(row)
        THEN /\ production_logs' = [production_logs EXCEPT ![id] = row]
             /\ shipping_program' = [f \in DOMAIN shipping_program |->
                                       IF f \in DOMAIN fn.rows THEN fn.rows[f]
                                       ELSE shipping_program[f]]
             /\ response' = [response EXCEPT ![c] = "ok"]
        ELSE /\ response' = [response EXCEPT ![c] = "error"]
             /\ UNCHANGED <<production_logs, shipping_program>>
  /\ UNCHANGED <<txn, rowLock, accepted, now, data, fetched, live, ui,
                 sortField, sortDirection, metrics, schedule>>

handleSubmitUpdate(c, id, truck_count) ==
  /\ txn[c].pc = "idle"
  /\ id \in 1..Len(production_logs)
  /\ LET formData == [FormOf(production_logs[id]) EXCEPT !.truck_count = truck_count]
         row == Payload(formData) @@ [created_at |-> production_logs[id].created_at,
                                      user_id |-> production_logs[id].user_id]
     IN IF CheckConstraints(row)
        THEN /\ production_logs' = [production_logs EXCEPT ![id] = row]
             /\ response' = [response EXCEPT ![c] = "ok"]
        ELSE /\ response' = [response EXCEPT ![c] = "error"]
             /\ UNCHANGED production_logs
  /\ UNCHANGED <<shipping_program, txn, rowLock, accepted, now, data, fetched, live, ui,
                 sortField, sortDirection, metrics, schedule>>

(***************************************************************************)
(* The session and the entry form's dossier lookup                         *)
(***************************************************************************)
\* The rows of profiles a user can have.
Profiles ==
  [role : {"admin", "operator"}, platform_assignment : {"BIG_BAG", "50KG", "BOTH"}]

\* useState of formData; an empty number input (NaN) is written 0, which every
\* use of the field reads it as (truck_count || 0).
EmptyFormData ==
  [category |-> "EXPORT", file_number |-> "", truck_count |-> 0,
   bl_number |-> "", tc_number |-> "", seal_number |-> ""]

\* No form: nobody is signed in on the client.  currentStock is <<>> for null
\* and <<n>> for the number n.
SignedOut ==
  [component |-> None, profile |-> [role |-> None, platform_assignment |-> None],
   userRole |-> NULL, platformAssignment |-> NULL,
   formData |-> EmptyFormData, dossierSearch |-> "",
   currentStock |-> <<>>, isLowStock |-> FALSE, crossPlatformError |-> NULL,
   alert |-> None, isSearching |-> FALSE, availablePrograms |-> {},
   requests |-> {}, loading |-> FALSE, isPlatformLocked |-> FALSE]

\* The platform filter both forms add to their shipping_program query.
PlatformFilter(userRole, platformAssignment) ==
  IF userRole # "admin" /\ platformAssignment # NULL /\ platformAssignment # "BOTH"
  THEN {platformAssignment}
  ELSE {"BIG_BAG", "50KG", NULL}

\* The request fetchPrograms sends: the programs not COMPLETED, of the caller's
\* platform unless the caller is an admin or assigned BOTH.
fetchPrograms(userRole, platformAssignment) ==
  [kind |-> "fetchPrograms", term |-> "", userRole |-> userRole,
   platformAssignment |-> platformAssignment]

\* The user signs in and the form is mounted: the form of generation
\* `component` ("lookup": handleDossierLookup on blur; "dropdown": the selection
\* list), while AuthContext still awaits the profile.
Mounted(component, profile) ==
  [SignedOut EXCEPT
     !.component = component,
     !.profile = profile,
     !.requests = IF component = "dropdown" THEN {fetchPrograms(NULL, NULL)} ELSE {}]

\* AuthContext.fetchProfile returns: role and assignment are set, and the
\* dropdown form's effect on [userRole, platformAssignment] fetches again.
fetchProfile(c) ==
  /\ ui[c].component # None
  /\ ui[c].userRole = NULL
  /\ ui' = [ui EXCEPT
       ![c].userRole = ui[c].profile.role,
       ![c].platformAssignment = ui[c].profile.platform_assignment,
       ![c].requests =
          IF ui[c].component = "dropdown"
          THEN @ \cup {fetchPrograms(ui[c].profile.role,
                                     ui[c].profile.platform_assignment)}
          ELSE @]
  /\ UNCHANGED <<shipping_program, production_logs, txn, rowLock, response, accepted,
                 now, data, fetched, live,
                 sortField, sortDirection, metrics, schedule>>

\* handleChange: a form field is typed into.
handleChange(c, field, value) ==
  /\ ui[c].component # None
  /\ ui' = [ui EXCEPT
       ![c].formData[field] = value,
       ![c].crossPlatformError =
          IF field = "file_number" /\ ui[c].component = "lookup" THEN NULL ELSE @]
  /\ UNCHANGED <<shipping_program, production_logs, txn, rowLock, response, accepted,
                 now, data, fetched, live,
                 sortField, sortDirection, metrics, schedule>>

\* The dossier field of the lookup form is typed into.
DossierField_onChange(c, value) ==
  /\ ui[c].component = "lookup"
  /\ handleChange(c, "file_number", value)

\* handleDossierLookup up to its first await: the query is built with the role
\* and assignment of the render the handler belongs to.
handleDossierLookup(c) ==
  /\ ui[c].component = "lookup"
  /\ ~ui[c].isSearching
  /\ IF ui[c].formData.file_number = ""
     THEN ui' = [ui EXCEPT ![c].alert = "enter_number"]
     ELSE ui' = [ui EXCEPT
            ![c].isSearching = TRUE,
            ![c].alert = None,
            ![c].crossPlatformError = NULL,
            ![c].currentStock = <<>>,
            ![c].isLowStock = FALSE,
            ![c].requests = @ \cup {[kind |-> "lookup",
                                     term |-> ui[c].formData.file_number,
                                     userRole |-> ui[c].userRole,
                                     platformAssignment |-> ui[c].platformAssignment]}]
  /\ UNCHANGED <<shipping_program, production_logs, txn, rowLock, response, accepted,
                 now, data, fetched, live,
                 sortField, sortDirection, metrics, schedule>>

\* check_dossier_platform: the platform_section of the row whose file_number
\* equals lookup_number, NULL without one.
check_dossier_platform(table, lookup_number) ==
  IF \E f \in DOMAIN table : f = lookup_number
  THEN table[CHOOSE f \in DOMAIN table : f = lookup_number].platform_section
  ELSE NULL

\* The rows the lookup's query selects: file_number ILIKE the term, within the
\* platform filter.
LookupRows(table, request) ==
  {f \in DOMAIN table :
     /\ ilike(f, request.term)
     /\ table[f].platform_section
          \in PlatformFilter(request.userRole, request.platformAssignment)}

\* LOW_STOCK_THRESHOLD of the lookup form, CRITICAL_THRESHOLD of the dropdown form
LOW_STOCK_THRESHOLD == 5

CRITICAL_THRESHOLD == 5

\* handleDossierLookup from the query's answer on: maybeSingle() fails on more
\* than one row; a program found fills the form; without one, a caller who is
\* no admin and has an assignment asks check_dossier_platform.
handleDossierLookup_query(c, request) ==
  /\ request \in ui[c].requests
  /\ request.kind = "lookup"
  /\ LET rows == LookupRows(shipping_program, request)
     IN IF Cardinality(rows) > 1
        THEN ui' = [ui EXCEPT ![c].alert = "error", ![c].isSearching = FALSE,
                              ![c].requests = @ \ {request}]
        ELSE IF rows = {}
        THEN IF request.userRole # "admin" /\ request.platformAssignment # NULL
             THEN ui' = [ui EXCEPT ![c].requests =
                           (@ \ {request}) \cup {[request EXCEPT !.kind = "rpc"]}]
             ELSE ui' = [ui EXCEPT ![c].alert = "not_found", ![c].isSearching = FALSE,
                                   ![c].requests = @ \ {request}]
        ELSE LET program == shipping_program[CHOOSE f \in rows : TRUE]
                 stock == program.planned_count
             IN ui' = [ui EXCEPT
                  ![c].currentStock = <<stock>>,
                  ![c].isLowStock = IF stock > 0 /\ stock <= LOW_STOCK_THRESHOLD
                                    THEN TRUE ELSE @,
                  ![c].formData.file_number = program.file_number,
                  ![c].isSearching = FALSE,
                  ![c].requests = @ \ {request}]
  /\ UNCHANGED <<shipping_program, production_logs, txn, rowLock, response, accepted,
                 now, data, fetched, live,
                 sortField, sortDirection, metrics, schedule>>

\* handleDossierLookup from the answer of check_dossier_platform on.
handleDossierLookup_rpc(c, request) ==
  /\ request \in ui[c].requests
  /\ request.kind = "rpc"
  /\ LET actualPlatform == check_dossier_platform(shipping_program, request.term)
     IN IF actualPlatform # NULL /\ actualPlatform # request.platformAssignment
        THEN ui' = [ui EXCEPT ![c].crossPlatformError = actualPlatform,
                              ![c].isSearching = FALSE,
                              ![c].requests = @ \ {request}]
        ELSE ui' = [ui EXCEPT ![c].alert = "not_found", ![c].isSearching = FALSE,
                              ![c].requests = @ \ {request}]
  /\ UNCHANGED <<shipping_program, production_logs, txn, rowLock, response, accepted,
                 now, data, fetched, live,
                 sortField, sortDirection, metrics, schedule>>

\* adjustedReste: the projected remaining of the inventory HUD, <<>> for null.
adjustedReste_clamped(form) ==
  IF form.currentStock # <<>>
  THEN <<IF form.currentStock[1] - form.formData.truck_count < 0 THEN 0
         ELSE form.currentStock[1] - form.formData.truck_count>>
  ELSE <<>>

adjustedReste(form) ==
  IF form.currentStock # <<>>
  THEN <<form.currentStock[1] - form.formData.truck_count>>
  ELSE <<>>

\* Whether the overbooking warning is rendered: currentStock !== null &&
\* (adjustedReste || 0) < 0.
OverbookingWarning(form) ==
  /\ form.currentStock # <<>>
  /\ (IF adjustedReste(form) = <<>> THEN 0 ELSE adjustedReste(form)[1]) < 0

\* fetchPrograms from the query's answer on: the list the dropdown draws from.
fetchPrograms_returns(c, request) ==
  /\ request \in ui[c].requests
  /\ request.kind = "fetchPrograms"
  /\ ui' = [ui EXCEPT
       ![c].availablePrograms =
          {shipping_program[f] : f \in
             {g \in DOMAIN shipping_program :
                /\ shipping_program[g].status # "COMPLETED"
                /\ shipping_program[g].platform_section
                     \in PlatformFilter(request.userRole, request.platformAssignment)}},
       ![c].requests = @ \ {request}]
  /\ UNCHANGED <<shipping_program, production_logs, txn, rowLock, response, accepted,
                 now, data, fetched, live,
                 sortField, sortDirection, metrics, schedule>>

\* The programs the dropdown offers for the text in the search box.
filteredPrograms(form) ==
  {program \in form.availablePrograms :
     includes(LowerChars(Chars(program.file_number)),
              LowerChars(Chars(form.dossierSearch)))}

\* handleDossierSearchChange: the search box is typed into; emptied, it clears
\* the selection.
handleDossierSearchChange(c, val) ==
  /\ ui[c].component = "dropdown"
  /\ ui' = [ui EXCEPT
       ![c].dossierSearch = val,
       ![c].formData.file_number = IF val = "" THEN "" ELSE @,
       ![c].currentStock = IF val = "" THEN <<>> ELSE @,
       ![c].isLowStock = IF val = "" THEN FALSE ELSE @]
  /\ UNCHANGED <<shipping_program, production_logs, txn, rowLock, response, accepted,
                 now, data, fetched, live,
                 sortField, sortDirection, metrics, schedule>>

\* selectProgram: an entry of the dropdown is clicked.
selectProgram(c, file_number) ==
  /\ ui[c].component = "dropdown"
  /\ \E program \in filteredPrograms(ui[c]) :
       /\ program.file_number = file_number
       /\ ui' = [ui EXCEPT
            ![c].currentStock = <<program.planned_count>>,
            ![c].isLowStock = program.planned_count > 0
                              /\ program.planned_count < CRITICAL_THRESHOLD,
            ![c].formData.file_number = program.file_number,
            ![c].dossierSearch = program.file_number,
            ![c].crossPlatformError = NULL]
  /\ UNCHANGED <<shipping_program, production_logs, txn, rowLock, response, accepted,
                 now, data, fetched, live,
                 sortField, sortDirection, metrics, schedule>>

(***************************************************************************)
(* The entry form on screen: mounting, constraint validation and submit    *)
(***************************************************************************)
\* A session whose profile is loaded and which shows no entry form (another
\* view, or the platform selector).
SignedIn(profile, isPlatformLocked) ==
  [SignedOut EXCEPT
     !.profile = profile,
     !.userRole = profile.role,
     !.platformAssignment = profile.platform_assignment,
     !.isPlatformLocked = isPlatformLocked]

\* AppContent renders EntryForm (view ENTRY and a platform selected): fresh
\* form state, and the dropdown form's effect fetches the programs.
EntryForm_mount(c, component) ==
  /\ ui[c].component = None
  /\ ui[c].userRole # NULL
  /\ ui' = [ui EXCEPT ![c] =
       [SignedIn(ui[c].profile, ui[c].isPlatformLocked) EXCEPT
          !.component = component,
          !.requests = IF component = "dropdown"
                       THEN {fetchPrograms(ui[c].userRole, ui[c].platformAssignment)}
                       ELSE {}]]
  /\ UNCHANGED <<shipping_program, production_logs, txn, rowLock, response, accepted,
                 now, data, fetched, live, sortField, sortDirection, metrics, schedule>>

\* Another view is opened: EntryForm is unmounted and its state discarded.
EntryForm_unmount(c) ==
  /\ ui[c].component # None
  /\ ui[c].userRole # NULL
  /\ ui' = [ui EXCEPT ![c] = SignedIn(ui[c].profile, ui[c].isPlatformLocked)]
  /\ UNCHANGED <<shipping_program, production_logs, txn, rowLock, response, accepted,
                 now, data, fetched, live, sortField, sortDirection, metrics, schedule>>

\* BUSINESS_LOGIC[platform][category].requiresLogistics
requiresLogistics(category) == category = "EXPORT"

\* The browser's constraint validation of the form on submit: Truck Count is
\* `required min={1}`, and N° BL, N° TC and N° Plombe, rendered when the
\* category requires logistics, are `required`. The dossier input carries no
\* constraint.
checkValidity_noLogistics(formData) ==
  /\ formData.truck_count >= 1

checkValidity(formData) ==
  /\ formData.truck_count >= 1
  /\ requiresLogistics(formData.category) =>
       /\ formData.bl_number # ""
       /\ formData.tc_number # ""
       /\ formData.seal_number # ""

\* The fields of the form that the payload is built from; shift, platform,
\* columns and weight are those of a BIG_BAG export on the morning shift.
SubmittedForm(formData) ==
  [category |-> formData.category, shift |-> "morning", platform |-> "BIG_BAG",
   truck_count |-> formData.truck_count,
   units_per_truck |-> 20, weight_per_unit |-> 1100,
   file_number |-> formData.file_number]

\* A category tab is clicked: handleChange('category', cat), and the effect on
\* formData.category clears the logistics fields the category does not use and
\* the stock shown; file_number and the search box are not in its list.
CategoryTabs_onCategoryChange(c, category) ==
  /\ ui[c].component = "dropdown"
  /\ ui[c].formData.category # category
  /\ ui' = [ui EXCEPT
       ![c].formData.category = category,
       ![c].formData.bl_number = IF requiresLogistics(category) THEN @ ELSE "",
       ![c].formData.tc_number = IF requiresLogistics(category) THEN @ ELSE "",
       ![c].formData.seal_number = IF requiresLogistics(category) THEN @ ELSE "",
       ![c].crossPlatformError = NULL,
       ![c].currentStock = <<>>,
       ![c].isLowStock = FALSE]
  /\ UNCHANGED <<shipping_program, production_logs, txn, rowLock, response, accepted,
                 now, data, fetched, live,
                 sortField, sortDirection, metrics, schedule>>

\* The Submit button is clicked: an invalid form shows the browser's message
\* and handleSubmit is not called; otherwise handleSubmit runs up to its await
\* of the insert.
EntryForm_onSubmit(c) ==
  /\ ui[c].component # None
  /\ ~ui[c].loading
  /\ IF ~checkValidity(ui[c].formData)
     THEN /\ ui' = [ui EXCEPT ![c].alert = "validation"]
          /\ UNCHANGED <<txn, response>>
     ELSE /\ insert(c, SubmittedForm(ui[c].formData))
          /\ ui' = [ui EXCEPT ![c].loading = TRUE]
  /\ UNCHANGED <<shipping_program, production_logs, rowLock, accepted,
                 now, data, fetched, live, sortField, sortDirection, metrics, schedule>>

\* handleSubmit of the dropdown form after its await. On success onSuccess
\* (handleEditComplete) closes the form unless the platform is locked; a form
\* that stays has its truck count and logistics fields and the search box
\* reset, and keeps file_number, currentStock and availablePrograms.
handleSubmit_returns(c) ==
  /\ ui[c].component = "dropdown"
  /\ ui[c].loading
  /\ response[c] \in {"ok", "error"}
  /\ response' = [response EXCEPT ![c] = None]
  /\ ui' = [ui EXCEPT ![c] =
       IF response[c] = "error"
       THEN [@ EXCEPT !.alert = "error", !.loading = FALSE]
       ELSE IF ~ui[c].isPlatformLocked
       THEN SignedIn(ui[c].profile, ui[c].isPlatformLocked)
       ELSE [@ EXCEPT
               !.alert = "saved",
               !.loading = FALSE,
               !.formData = [@ EXCEPT !.truck_count = 0, !.bl_number = "",
                                      !.tc_number = "", !.seal_number = ""],
               !.dossierSearch = ""]]
  /\ UNCHANGED <<shipping_program, production_logs, txn, rowLock, accepted,
                 now, data, fetched, live, sortField, sortDirection, metrics, schedule>>

(***************************************************************************)
(* LogisticsMonitor: fetchData and the execution status classifier         *)
(***************************************************************************)
\* One tonne, in the thousandths of a tonne that quantities are counted in.
Tonne == 1000

Min(a, b) == IF a < b THEN a ELSE b

\* Math.round(num / den) for num >= 0 and den > 0: the nearest integer, a tie
\* going up.
MathRound(num, den) == (2 * num + den) \div (2 * den)

NoPrograms == [f \in {} |-> 0]

\* actualsMap after logs.forEach: per file_number the tonnage and the trucks of
\* its logs; a log without file_number is skipped.
RECURSIVE actualsMap(_)
actualsMap(logs) ==
  IF logs = <<>> THEN NoPrograms
  ELSE LET m == actualsMap(SubSeq(logs, 1, Len(logs) - 1))
           log == logs[Len(logs)]
           current == IF log.file_number \in DOMAIN m THEN m[log.file_number]
                      ELSE [tons |-> 0, trucks |-> 0]
       IN IF log.file_number = "" THEN m
          ELSE [g \in DOMAIN m \cup {log.file_number} |->
                  IF g = log.file_number
                  THEN [tons |-> current.tons + log.total_tonnage,
                        trucks |-> current.trucks + log.truck_count]
                  ELSE m[g]]

\* The percent and status of one dossier (planned_quantity 0 is read as 1):
\* the status is assigned PENDING and then overwritten by each test that holds.
ProgramStatus_tolerance99(planned_quantity, tons) ==
  LET plannedQty == IF planned_quantity = 0 THEN 1 * Tonne ELSE planned_quantity
      percent == Min(100, MathRound(tons * 100, plannedQty))
      status1 == IF tons > 0 THEN "IN_PROGRESS" ELSE "PENDING"
      status2 == IF percent >= 99 /\ percent <= 100 THEN "COMPLETED" ELSE status1
      status3 == IF tons > plannedQty THEN "OVERBOOKED" ELSE status2
  IN [progress |-> percent, status |-> status3]

ProgramStatus_byPercent(planned_quantity, tons) ==
  LET plannedQty == IF planned_quantity = 0 THEN 1 * Tonne ELSE planned_quantity
      percent == Min(100, MathRound(tons * 100, plannedQty))
      status1 == IF percent > 0 THEN "IN_PROGRESS" ELSE "PENDING"
      status2 == IF percent >= 98 /\ percent <= 100 THEN "COMPLETED" ELSE status1
      status3 == IF tons > plannedQty THEN "OVERBOOKED" ELSE status2
  IN [progress |-> percent, status |-> status3]

ProgramStatus(planned_quantity, tons) ==
  LET plannedQty == IF planned_quantity = 0 THEN 1 * Tonne ELSE planned_quantity
      percent == Min(100, MathRound(tons * 100, plannedQty))
      status1 == IF tons > 0 THEN "IN_PROGRESS" ELSE "PENDING"
      status2 == IF percent >= 98 /\ percent <= 100 THEN "COMPLETED" ELSE status1
      status3 == IF tons > plannedQty THEN "OVERBOOKED" ELSE status2
  IN [progress |-> percent, status |-> status3]

\* dashboardData: one row per program, merged with the actuals of its file_number.
dashboardData_fromLedger(programs, logs) ==
  [f \in DOMAIN programs |->
     LET prog == programs[f]
         actual == IF prog.file_number \in DOMAIN actualsMap(logs)
                   THEN actualsMap(logs)[prog.file_number]
                   ELSE [tons |-> 0, trucks |-> 0]
         derived == ProgramStatus(prog.planned_quantity, actual.tons)
     IN [file_number |-> prog.file_number,
         platform |-> prog.platform_section,
         planned_qty |-> prog.planned_quantity,
         planned_trucks |-> prog.planned_count,
         actual_qty |-> actual.tons,
         actual_trucks |-> actual.trucks,
         progress |-> derived.progress,
         status |-> IF prog.planned_count <= 0 THEN "COMPLETED" ELSE derived.status]]

dashboardData(programs, logs) ==
  [f \in DOMAIN programs |->
     LET prog == programs[f]
         actual == IF prog.file_number \in DOMAIN actualsMap(logs)
                   THEN actualsMap(logs)[prog.file_number]
                   ELSE [tons |-> 0, trucks |-> 0]
         derived == ProgramStatus(prog.planned_quantity, actual.tons)
     IN [file_number |-> prog.file_number,
         platform |-> prog.platform_section,
         planned_qty |-> prog.planned_quantity,
         planned_trucks |-> prog.planned_count,
         actual_qty |-> actual.tons,
         actual_trucks |-> actual.trucks,
         progress |-> derived.progress,
         status |-> derived.status]]

Unmounted == [pc |-> "unmounted", programs |-> NoPrograms]

\* fetchData, step 1: read the plan.
fetchData_programs ==
  /\ fetched.pc = "unmounted"
  /\ fetched' = [pc |-> "programs", programs |-> shipping_program]
  /\ UNCHANGED <<shipping_program, production_logs, txn, rowLock, response, accepted,
                 now, data, live, ui,
                 sortField, sortDirection, metrics, schedule>>

\* fetchData, steps 2 and 3: read the logs, merge and classify, setData.
fetchData_merge ==
  /\ fetched.pc = "programs"
  /\ data' = dashboardData(fetched.programs, production_logs)
  /\ fetched' = [pc |-> "shown", programs |-> NoPrograms]
  /\ UNCHANGED <<shipping_program, production_logs, txn, rowLock, response, accepted,
                 now, live, ui,
                 sortField, sortDirection, metrics, schedule>>

\* The monitor is closed; opening it again fetches afresh.
unmount ==
  /\ fetched.pc = "shown"
  /\ fetched' = Unmounted
  /\ data' = NoPrograms
  /\ sortField' = "status"
  /\ sortDirection' = "asc"
  /\ UNCHANGED <<shipping_program, production_logs, txn, rowLock, response, accepted,
                 now, live, ui, metrics, schedule>>

\* statusPriority of the sort: the most urgent status first.
statusPriority_pendingFirst(status) ==
  CASE status = "OVERBOOKED" -> 1
    [] status = "IN_PROGRESS" -> 3
    [] status = "PENDING" -> 2
    [] status = "COMPLETED" -> 4

statusPriority(status) ==
  CASE status = "OVERBOOKED" -> 1
    [] status = "IN_PROGRESS" -> 2
    [] status = "PENDING" -> 3
    [] status = "COMPLETED" -> 4

\* The comparator handed to Array.sort, for the numeric sort fields.
compareValue(a, b, field, direction) ==
  LET value == CASE field = "status" -> statusPriority(a.status) - statusPriority(b.status)
                 [] field = "progress" -> a.progress - b.progress
  IN IF direction = "asc" THEN value ELSE 0 - value

\* Array.sort: a stable sort, each item placed behind the items that do not
\* compare greater than it.
RECURSIVE sort(_, _, _)
sort(items, field, direction) ==
  IF items = <<>> THEN <<>>
  ELSE LET sorted == sort(SubSeq(items, 1, Len(items) - 1), field, direction)
           item == items[Len(items)]
           before == {i \in 1..Len(sorted) :
                        compareValue(sorted[i], item, field, direction) <= 0}
           k == IF before = {} THEN 0 ELSE CHOOSE i \in before : \A j \in before : j <= i
       IN SubSeq(sorted, 1, k) \o <<item>> \o SubSeq(sorted, k + 1, Len(sorted))

\* filteredAndSortedData with the filters at ALL and the search empty: the
\* rows, in the order the query returned them, sorted.
filteredAndSortedData(rows, field, direction) == sort(rows, field, direction)

\* handleSort: the same column toggles the direction, another column is
\* sorted ascending.
handleSort(field) ==
  /\ fetched.pc # "unmounted"
  /\ IF sortField = field
     THEN /\ sortDirection' = (IF sortDirection = "asc" THEN "desc" ELSE "asc")
          /\ UNCHANGED sortField
     ELSE /\ sortField' = field
          /\ sortDirection' = "asc"
  /\ UNCHANGED <<shipping_program, production_logs, txn, rowLock, response, accepted,
                 now, data, fetched, live, ui, metrics, schedule>>

\* clearFilters: back to the default sort.
clearFilters ==
  /\ fetched.pc # "unmounted"
  /\ sortField' = "status"
  /\ sortDirection' = "asc"
  /\ UNCHANGED <<shipping_program, production_logs, txn, rowLock, response, accepted,
                 now, data, fetched, live, ui, metrics, schedule>>

(***************************************************************************)
(* The reporting rollups                                                   *)
(***************************************************************************)
\* formatted_logs: each log with its production date, month and year; before
\* 06:00 the log belongs to the day before.
formatted_logs_rawMonth(logs) ==
  [i \in DOMAIN logs |->
     logs[i] @@
     [production_date |->
        IF HourOf(logs[i].created_at) < 6 THEN DateOf(logs[i].created_at - 1440)
        ELSE DateOf(logs[i].created_at),
      production_month |->
        [year |-> DateOf(logs[i].created_at).year,
         month |-> DateOf(logs[i].created_at).month],
      production_year |->
        DateOf(IF HourOf(logs[i].created_at) < 6 THEN logs[i].created_at - 1440
               ELSE logs[i].created_at).year]]

formatted_logs(logs) ==
  [i \in DOMAIN logs |->
     logs[i] @@
     [production_date |->
        IF HourOf(logs[i].created_at) < 6 THEN DateOf(logs[i].created_at - 1440)
        ELSE DateOf(logs[i].created_at),
      production_month |->
        [year |-> DateOf(IF HourOf(logs[i].created_at) < 6
                         THEN logs[i].created_at - 1440
                         ELSE logs[i].created_at).year,
         month |-> DateOf(IF HourOf(logs[i].created_at) < 6
                          THEN logs[i].created_at - 1440
                          ELSE logs[i].created_at).month],
      production_year |->
        DateOf(IF HourOf(logs[i].created_at) < 6 THEN logs[i].created_at - 1440
               ELSE logs[i].created_at).year]]

\* The grouping key of a formatted log.
GroupKey(fl) ==
  [production_date |-> fl.production_date, production_month |-> fl.production_month,
   production_year |-> fl.production_year, platform |-> fl.platform,
   category |-> fl.category]

RECURSIVE SumOver(_, _, _)
\* SUM(CASE WHEN shift IN shifts THEN total_tonnage ELSE 0 END) over the
\* formatted logs of group key.
SumOver(fls, key, shifts) ==
  IF fls = <<>> THEN 0
  ELSE (IF GroupKey(Head(fls)) = key /\ Head(fls).shift \in shifts
        THEN Head(fls).total_tonnage ELSE 0)
       + SumOver(Tail(fls), key, shifts)

\* daily_production_stats: one row per (date, month, year, platform, category).
daily_production_stats_noFold(logs) ==
  LET fls == formatted_logs(logs)
  IN {key @@
      [total_trucks |-> Cardinality({i \in DOMAIN fls : GroupKey(fls[i]) = key}),
       total_tonnage |-> SumOver(fls, key, Shifts),
       morning_tonnage |-> SumOver(fls, key, {"MORNING"}),
       afternoon_tonnage |-> SumOver(fls, key, {"AFTERNOON"}),
       night_tonnage |-> SumOver(fls, key, {"NIGHT"}),
       active_operators |->
         Cardinality({fls[i].user_id : i \in {j \in DOMAIN fls : GroupKey(fls[j]) = key}}
                     \ {NULL})]
      : key \in {GroupKey(fls[i]) : i \in DOMAIN fls}}

daily_production_stats(logs) ==
  LET fls == formatted_logs(logs)
  IN {key @@
      [total_trucks |-> Cardinality({i \in DOMAIN fls : GroupKey(fls[i]) = key}),
       total_tonnage |-> SumOver(fls, key, Shifts),
       morning_tonnage |-> SumOver(fls, key, {"MORNING"}),
       afternoon_tonnage |-> SumOver(fls, key, {"AFTERNOON", "EVENING"}),
       night_tonnage |-> SumOver(fls, key, {"NIGHT"}),
       active_operators |->
         Cardinality({fls[i].user_id : i \in {j \in DOMAIN fls : GroupKey(fls[j]) = key}}
                     \ {NULL})]
      : key \in {GroupKey(fls[i]) : i \in DOMAIN fls}}

\* LiveDashboard.fetchData: the lower bound on created_at of a date range.
RangeStart(dateRange, t) ==
  CASE dateRange = "TODAY" -> (t \div 1440) * 1440
    [] dateRange = "WEEK" -> t - 7 * 1440
    [] dateRange = "MONTH" ->
         Instant(DateOf(t).year, DateOf(t).month - 1, DateOf(t).day, HourOf(t), t % 60)
    [] OTHER -> 0

RECURSIVE SelectFrom(_, _)
\* The rows with created_at >= start, in table order.
SelectFrom(logs, start) ==
  IF logs = <<>> THEN <<>>
  ELSE (IF Head(logs).created_at >= start THEN <<Head(logs)>> ELSE <<>>)
       \o SelectFrom(Tail(logs), start)

\* The row's operator as the dashboard names it: the joined profile's name, or
\* 'Unknown' without a profile.
OperatorName(log) == IF log.user_id = NULL THEN "Unknown" ELSE log.user_id

\* The shift a log is counted under: EVENING is counted as AFTERNOON.
CountedShift(log) ==
  IF toUpperCase(log.shift) = "EVENING" THEN "AFTERNOON" ELSE toUpperCase(log.shift)

RECURSIVE shiftMap(_)
\* shiftMap after data.forEach.
shiftMap(logs) ==
  IF logs = <<>> THEN [MORNING |-> 0, AFTERNOON |-> 0, EVENING |-> 0, NIGHT |-> 0]
  ELSE LET m == shiftMap(SubSeq(logs, 1, Len(logs) - 1))
           log == logs[Len(logs)]
       IN IF CountedShift(log) \in DOMAIN m
          THEN [m EXCEPT ![CountedShift(log)] = @ + log.total_tonnage]
          ELSE m

RECURSIVE operatorMap(_)
\* operatorMap after data.forEach: per operator name the tonnage by shift.
operatorMap(logs) ==
  IF logs = <<>> THEN [n \in {} |-> 0]
  ELSE LET m == operatorMap(SubSeq(logs, 1, Len(logs) - 1))
           log == logs[Len(logs)]
           name == OperatorName(log)
           opStats == IF name \in DOMAIN m THEN m[name]
                      ELSE [name |-> name, MORNING |-> 0, AFTERNOON |-> 0, NIGHT |-> 0,
                            totalTonnage |-> 0, totalTrucks |-> 0]
       IN [n \in DOMAIN m \cup {name} |->
             IF n = name
             THEN [opStats EXCEPT ![CountedShift(log)] = @ + log.total_tonnage,
                                  !.totalTonnage = @ + log.total_tonnage,
                                  !.totalTrucks = @ + log.truck_count]
             ELSE m[n]]

RECURSIVE SumField(_, _)
SumField(logs, field) ==
  IF logs = <<>> THEN 0 ELSE Head(logs)[field] + SumField(Tail(logs), field)

\* The useMemo of LiveDashboard over the fetched logs.
LiveMemo(logs) ==
  LET pie == [Morning |-> shiftMap(logs).MORNING,
              Afternoon |-> shiftMap(logs).AFTERNOON + shiftMap(logs).EVENING,
              Night |-> shiftMap(logs).NIGHT]
  IN [chartData |-> operatorMap(logs),
      shiftTotals |-> [n \in {k \in DOMAIN pie : pie[k] > 0} |-> pie[n]],
      grandTotal |-> SumField(logs, "total_tonnage"),
      totalTrucks |-> SumField(logs, "truck_count")]

NotLoaded == [data |-> <<>>, memo |-> LiveMemo(<<>>)]

\* LiveDashboard: the range is chosen (or the dashboard opened) and fetchData
\* reads the logs of the range; the memo follows the data.
LiveDashboard_fetchData(dateRange) ==
  /\ LET logs == SelectFrom(production_logs, RangeStart(dateRange, Clock[now]))
     IN live' = [data |-> logs, memo |-> LiveMemo(logs)]
  /\ UNCHANGED <<shipping_program, production_logs, txn, rowLock, response, accepted,
                 now, data, fetched, ui,
                 sortField, sortDirection, metrics, schedule>>

\* Time passes.
Tick ==
  /\ now < Len(Clock)
  /\ now' = now + 1
  /\ UNCHANGED <<shipping_program, production_logs, txn, rowLock, response, accepted,
                 data, fetched, live, ui,
                 sortField, sortDirection, metrics, schedule>>

(***************************************************************************)
(* The operator HUD                                                        *)
(***************************************************************************)
\* useState of loading and metrics; data is the answer of the last query.
HudLoading == [loading |-> TRUE, data |-> <<>>, count |-> 0, tonnage |-> 0]

\* getIndustrialDayRange at instant t, with every day starting at 06:00 of
\* its own date.
getIndustrialDayRange_today(t) ==
  LET start == Instant(DateOf(t).year, DateOf(t).month, DateOf(t).day, 6, 0)
  IN [start |-> start,
      end |-> Instant(DateOf(start).year, DateOf(start).month, DateOf(start).day + 1, 6, 0)]

\* getIndustrialDayRange at instant t: before 06:00 the date is set back one
\* day; start is 06:00 of that date and end 06:00 of the date after.
getIndustrialDayRange(t) ==
  LET day == IF HourOf(t) < 6
             THEN Instant(DateOf(t).year, DateOf(t).month, DateOf(t).day - 1,
                          HourOf(t), t % 60)
             ELSE t
      start == Instant(DateOf(day).year, DateOf(day).month, DateOf(day).day, 6, 0)
  IN [start |-> start,
      end |-> Instant(DateOf(start).year, DateOf(start).month, DateOf(start).day + 1, 6, 0)]

\* fetchProgress of the HUD of the user signed in on client c: the user's logs
\* of the range, and their totals.
fetchProgress(c) ==
  /\ ui[c].userRole # NULL
  /\ LET range == getIndustrialDayRange(Clock[now])
         rows == SelectSeq(production_logs,
                           LAMBDA log : /\ log.user_id = c
                                        /\ log.created_at >= range.start
                                        /\ log.created_at < range.end)
     IN metrics' = [metrics EXCEPT ![c] =
                      [loading |-> FALSE, data |-> rows,
                       count |-> SumField(rows, "truck_count"),
                       tonnage |-> SumField(rows, "total_tonnage")]]
  /\ UNCHANGED <<shipping_program, production_logs, txn, rowLock, response, accepted,
                 now, data, fetched, live, ui, sortField, sortDirection, schedule>>

(***************************************************************************)
(* The schedule view                                                       *)
(***************************************************************************)
\* ProgramView not rendered.
ScheduleClosed == [pc |-> "closed", programData |-> <<>>, rows |-> <<>>]

RECURSIVE totalLoaded(_, _)
\* logsData.filter(file_number === f).reduce(sum + (truck_count || 0)), and
\* sum(pl.truck_count) over the logs joined to program f.
totalLoaded(logs, f) ==
  IF logs = <<>> THEN 0
  ELSE (IF Head(logs).file_number = f THEN Head(logs).truck_count ELSE 0)
       + totalLoaded(Tail(logs), f)

\* fetchProgramData, step A: the programs that are not COMPLETED.
fetchProgramData_programs ==
  /\ schedule.pc \in {"closed", "shown"}
  /\ schedule' = [schedule EXCEPT
       !.pc = "logs",
       !.programData = [f \in {g \in DOMAIN shipping_program :
                                 shipping_program[g].status # "COMPLETED"} |->
                          shipping_program[f]]]
  /\ UNCHANGED <<shipping_program, production_logs, txn, rowLock, response, accepted,
                 now, data, fetched, live, ui, sortField, sortDirection, metrics>>

\* fetchProgramData, steps B and C: the logs of these programs, and per
\* program planned_count as read and the trucks of its logs added up.
fetchProgramData_logs ==
  /\ schedule.pc = "logs"
  /\ schedule' = [schedule EXCEPT
       !.pc = "shown",
       !.rows = [f \in DOMAIN schedule.programData |->
                   [file_number |-> f,
                    planned_count |-> schedule.programData[f].planned_count,
                    total_loaded_cumulative |-> totalLoaded(production_logs, f),
                    status |-> schedule.programData[f].status]]]
  /\ UNCHANGED <<shipping_program, production_logs, txn, rowLock, response, accepted,
                 now, data, fetched, live, ui, sortField, sortDirection, metrics>>

\* The remaining count on a program's card.
remaining(prog) ==
  IF prog.planned_count - prog.total_loaded_cumulative > 0
  THEN prog.planned_count - prog.total_loaded_cumulative ELSE 0

\* The view shipping_program_dashboard: per program not COMPLETED, the trucks
\* of its logs and what remains of planned_count after them.
shipping_program_dashboard(table, logs) ==
  [f \in {g \in DOMAIN table : table[g].status # "COMPLETED"} |->
     [file_number |-> f, planned_count |-> table[f].planned_count,
      status |-> table[f].status,
      total_loaded |-> totalLoaded(logs, f),
      remaining_trucks |->
        IF table[f].planned_count - totalLoaded(logs, f) > 0
        THEN table[f].planned_count - totalLoaded(logs, f) ELSE 0]]

(***************************************************************************)
(* The ledger: concurrent operators submitting and editing entries         *)
(***************************************************************************)
LedgerForms ==
  [category : {"EXPORT"}, shift : {"morning"}, platform : {"BIG_BAG"},
   truck_count : {0, 4, 5},
   units_per_truck : {20}, weight_per_unit : {1200},
   file_number : {"D1", "d1", "D2", "DX"}]

\* The corrected truck counts typed into the form when a log is edited.
LedgerEdits == {0, 8}

Init ==
  /\ \E s \in {"IN_PROGRESS", "COMPLETED"} : shipping_program = ImportedPrograms(s)
  /\ production_logs = <<>>
  /\ txn = [c \in Clients |-> IdleTxn]
  /\ rowLock = [f \in {"D1", "D2"} |-> None]
  /\ response = [c \in Clients |-> None]
  /\ accepted = <<>>
  /\ now = 1
  /\ data = NoPrograms
  /\ fetched = Unmounted
  /\ live = NotLoaded
  /\ ui = [c \in Clients |-> SignedOut]
  /\ sortField = "status"
  /\ sortDirection = "asc"
  /\ metrics = [c \in Clients |-> HudLoading]
  /\ schedule = ScheduleClosed

Next ==
  \E c \in Clients :
    \/ \E formData \in LedgerForms : handleSubmitInsert(c, formData)
    \/ \E id \in 1..MaxLogs, n \in LedgerEdits : handleSubmitUpdate(c, id, n)
    \/ trigger_activate_program(c)
    \/ update_planned_count_trigger(c)
    \/ Commit(c)

Spec == Init /\ [][Next]_vars

(***************************************************************************)
(* The monitor: an operator loading trucks while the monitor is opened     *)
(***************************************************************************)
\* Planned tonnages of dossier D1 as imported.
MonitorPlans == {0, 100 * Tonne, 200 * Tonne}

\* 50KG export entries: 4 trucks of 0.05 t bags, the bags per truck as typed.
MonitorForms ==
  [category : {"EXPORT"}, shift : {"morning"}, platform : {"50KG"},
   truck_count : {4},
   units_per_truck : {0, 2, 485, 495, 505}, weight_per_unit : {50},
   file_number : {"D1", "D2", ""}]

InitMonitor ==
  /\ \E q \in MonitorPlans :
       shipping_program =
         [f \in {"D1", "D2"} |->
            [ImportedPrograms("IN_PROGRESS")[f] EXCEPT
               !.planned_quantity = IF f = "D1" THEN q ELSE 100 * Tonne]]
  /\ production_logs = <<>>
  /\ txn = [c \in Clients |-> IdleTxn]
  /\ rowLock = [f \in {"D1", "D2"} |-> None]
  /\ response = [c \in Clients |-> None]
  /\ accepted = <<>>
  /\ now = 1
  /\ data = NoPrograms
  /\ fetched = Unmounted
  /\ live = NotLoaded
  /\ ui = [c \in Clients |-> SignedOut]
  /\ sortField = "status"
  /\ sortDirection = "asc"
  /\ metrics = [c \in Clients |-> HudLoading]
  /\ schedule = ScheduleClosed

NextMonitor ==
  \/ \E formData \in MonitorForms : handleSubmitInsert("op1", formData)
  \/ trigger_activate_program("op1")
  \/ update_planned_count_trigger("op1")
  \/ Commit("op1")
  \/ fetchData_programs
  \/ fetchData_merge
  \/ unmount
  \/ \E field \in {"status", "progress"} : handleSort(field)
  \/ clearFilters

SpecMonitor == InitMonitor /\ [][NextMonitor]_vars

(***************************************************************************)
(* The rollups: entries over several industrial days, beside legacy rows   *)
(***************************************************************************)
ViewForms ==
  [category : {"EXPORT"}, shift : {"afternoon", "night"},
   platform : {"BIG_BAG"}, truck_count : {1}, units_per_truck : {20},
   weight_per_unit : {1100}, file_number : {"D1"}]

\* Rows written before the form's three shifts: the schema admits EVENING.
LegacyLogs ==
  {<<>>,
   <<[category |-> "EXPORT", shift |-> "EVENING", platform |-> "BIG_BAG",
      truck_count |-> 1, units_per_truck |-> 20, weight_per_unit |-> 1200,
      total_tonnage |-> 24000, file_number |-> "D2", created_at |-> Clock[1],
      user_id |-> NULL]>>}

InitViews ==
  /\ shipping_program = ImportedPrograms("IN_PROGRESS")
  /\ production_logs \in LegacyLogs
  /\ txn = [c \in Clients |-> IdleTxn]
  /\ rowLock = [f \in {"D1", "D2"} |-> None]
  /\ response = [c \in Clients |-> None]
  /\ accepted = [i \in DOMAIN production_logs |->
                   production_logs[i] @@ [overlapped |-> FALSE]]
  /\ now = 1
  /\ data = NoPrograms
  /\ fetched = Unmounted
  /\ live = NotLoaded
  /\ ui = [c \in Clients |-> SignedOut]
  /\ sortField = "status"
  /\ sortDirection = "asc"
  /\ metrics = [c \in Clients |-> HudLoading]
  /\ schedule = ScheduleClosed

NextViews ==
  \/ \E formData \in ViewForms : handleSubmitInsert("op1", formData)
  \/ trigger_activate_program("op1")
  \/ update_planned_count_trigger("op1")
  \/ Commit("op1")
  \/ \E id \in 1..MaxLogs : handleSubmitUpdate("op1", id, 2)
  \/ \E dateRange \in {"TODAY", "WEEK", "MONTH", "ALL"} : LiveDashboard_fetchData(dateRange)
  \/ Tick

SpecViews == InitViews /\ [][NextViews]_vars

(***************************************************************************)
(* The HUD: two operators looking at their shift output                    *)
(***************************************************************************)
\* The instants the logs on record were created at: around 06:00 of the days
\* the clock passes through.
HudInstants ==
  {Instant(2023, 12, 31, 6, 0), Instant(2024, 1, 1, 5, 0), Instant(2024, 2, 29, 6, 0),
   Instant(2024, 3, 1, 5, 0), Instant(2024, 6, 1, 5, 59), Instant(2024, 6, 1, 6, 0),
   Instant(2024, 6, 2, 5, 30), Instant(2024, 6, 2, 6, 0)}

\* The logs on record, each owned by one of the operators.
HudLogs ==
  UNION {[1..n -> [category : {"EXPORT"}, shift : {"MORNING"}, platform : {"BIG_BAG"},
                   truck_count : {2}, units_per_truck : {20}, weight_per_unit : {1200},
                   total_tonnage : {48000}, file_number : {"D1"},
                   created_at : HudInstants, user_id : Clients]]
         : n \in 0..MaxLogs}

InitHud ==
  /\ shipping_program = ImportedPrograms("IN_PROGRESS")
  /\ now \in 1..Len(Clock)
  /\ production_logs \in HudLogs
  /\ \A i \in DOMAIN production_logs : production_logs[i].created_at <= Clock[now]
  /\ txn = [c \in Clients |-> IdleTxn]
  /\ rowLock = [f \in {"D1", "D2"} |-> None]
  /\ response = [c \in Clients |-> None]
  /\ accepted = [i \in DOMAIN production_logs |->
                   production_logs[i] @@ [overlapped |-> FALSE]]
  /\ data = NoPrograms
  /\ fetched = Unmounted
  /\ live = NotLoaded
  /\ ui = [c \in Clients |->
             SignedIn([role |-> "operator", platform_assignment |-> "BIG_BAG"], TRUE)]
  /\ sortField = "status"
  /\ sortDirection = "asc"
  /\ metrics = [c \in Clients |-> HudLoading]
  /\ schedule = ScheduleClosed

NextHud ==
  \/ \E c \in Clients : fetchProgress(c)
  \/ Tick

SpecHud == InitHud /\ [][NextHud]_vars

(***************************************************************************)
(* The dossier lookup: one operator or admin at either form                *)
(***************************************************************************)
\* What is typed into the dossier field or the search box.
SearchTerms == {"", "D1", "d1", "D2", "D", "DX"}

\* The requests a form can have in flight.
Requests ==
  [kind : {"lookup", "rpc", "fetchPrograms"}, term : SearchTerms,
   userRole : {NULL, "admin", "operator"},
   platformAssignment : {NULL, "BIG_BAG", "50KG", "BOTH"}]

\* The stock the plan of D1 starts at.
LookupStocks == {-2, 0, 1, 4, 5, 6}

\* The truck counts typed.
LookupTrucks == {0, 2, 7}

InitLookup ==
  /\ \E n \in LookupStocks, s \in {"IN_PROGRESS", "COMPLETED"} :
       shipping_program = [ImportedPrograms(s) EXCEPT !["D1"].planned_count = n]
  /\ production_logs = <<>>
  /\ txn = [c \in Clients |-> IdleTxn]
  /\ rowLock = [f \in {"D1", "D2"} |-> None]
  /\ response = [c \in Clients |-> None]
  /\ accepted = <<>>
  /\ now = 1
  /\ data = NoPrograms
  /\ fetched = Unmounted
  /\ live = NotLoaded
  /\ \E component \in {"lookup", "dropdown"}, profile \in Profiles :
       ui = [c \in Clients |->
               IF c = "op1" THEN Mounted(component, profile) ELSE SignedOut]
  /\ sortField = "status"
  /\ sortDirection = "asc"
  /\ metrics = [c \in Clients |-> HudLoading]
  /\ schedule = ScheduleClosed

NextLookup ==
  \/ fetchProfile("op1")
  \/ \E value \in SearchTerms : DossierField_onChange("op1", value)
  \/ \E value \in LookupTrucks : handleChange("op1", "truck_count", value)
  \/ handleDossierLookup("op1")
  \/ \E request \in Requests : handleDossierLookup_query("op1", request)
  \/ \E request \in Requests : handleDossierLookup_rpc("op1", request)
  \/ \E request \in Requests : fetchPrograms_returns("op1", request)
  \/ \E val \in SearchTerms : handleDossierSearchChange("op1", val)
  \/ \E file_number \in {"D1", "D2"} : selectProgram("op1", file_number)

SpecLookup == InitLookup /\ [][NextLookup]_vars

(***************************************************************************)
(* One operator at the entry form                                          *)
(***************************************************************************)
\* The truck counts typed: -1, 0 (shown as an empty field) and 2.
EntryTrucks == {-1, 0, 2}

EntryProfiles ==
  {[role |-> "operator", platform_assignment |-> "BIG_BAG"],
   [role |-> "admin", platform_assignment |-> "BOTH"]}

InitEntry ==
  /\ shipping_program = ImportedPrograms("IN_PROGRESS")
  /\ production_logs = <<>>
  /\ txn = [c \in Clients |-> IdleTxn]
  /\ rowLock = [f \in {"D1", "D2"} |-> None]
  /\ response = [c \in Clients |-> None]
  /\ accepted = <<>>
  /\ now = 1
  /\ data = NoPrograms
  /\ fetched = Unmounted
  /\ live = NotLoaded
  /\ \E profile \in EntryProfiles :
       ui = [c \in Clients |->
               IF c = "op1" THEN SignedIn(profile, profile.role = "operator")
               ELSE SignedOut]
  /\ sortField = "status"
  /\ sortDirection = "asc"
  /\ metrics = [c \in Clients |-> HudLoading]
  /\ schedule = ScheduleClosed

NextEntry ==
  \/ EntryForm_mount("op1", "dropdown")
  \/ EntryForm_unmount("op1")
  \/ \E request \in Requests : fetchPrograms_returns("op1", request)
  \/ \E val \in {"", "D"} : handleDossierSearchChange("op1", val)
  \/ selectProgram("op1", "D1")
  \/ \E value \in EntryTrucks : handleChange("op1", "truck_count", value)
  \/ \E field \in {"bl_number", "tc_number", "seal_number"}, value \in {"", "X"} :
       handleChange("op1", field, value)
  \/ EntryForm_onSubmit("op1")
  \/ trigger_activate_program("op1")
  \/ update_planned_count_trigger("op1")
  \/ Commit("op1")
  \/ Commit_responseLost("op1")
  \/ handleSubmit_returns("op1")

SpecEntry == InitEntry /\ [][NextEntry]_vars

(***************************************************************************)
(* One operator at the entry form, switching between the category tabs     *)
(***************************************************************************)
\* The tabs clicked; LOCAL, which asks for a truck matricule on BIG_BAG, is
\* left aside.
TabCategories == {"EXPORT", "DEBARDAGE"}

NextTabs ==
  \/ EntryForm_mount("op1", "dropdown")
  \/ EntryForm_unmount("op1")
  \/ \E request \in Requests : fetchPrograms_returns("op1", request)
  \/ selectProgram("op1", "D1")
  \/ \E value \in {0, 2} : handleChange("op1", "truck_count", value)
  \/ \E category \in TabCategories : CategoryTabs_onCategoryChange("op1", category)
  \/ EntryForm_onSubmit("op1")
  \/ trigger_activate_program("op1")
  \/ update_planned_count_trigger("op1")
  \/ Commit("op1")
  \/ handleSubmit_returns("op1")

SpecTabs == InitEntry /\ [][NextTabs]_vars

(***************************************************************************)
(* The schedule: an operator loading trucks while the schedule is opened   *)
(***************************************************************************)
ScheduleForms ==
  [category : {"EXPORT"}, shift : {"morning"}, platform : {"BIG_BAG"},
   truck_count : {4, 5}, units_per_truck : {20}, weight_per_unit : {1200},
   file_number : {"D1", "D2"}]

NextSchedule ==
  \/ \E formData \in ScheduleForms : handleSubmitInsert("op1", formData)
  \/ trigger_activate_program("op1")
  \/ update_planned_count_trigger("op1")
  \/ Commit("op1")
  \/ fetchProgramData_programs
  \/ fetchProgramData_logs

SpecSchedule == Init /\ [][NextSchedule]_vars

(***************************************************************************)
(* Two operators at the entry form, on the same dossier                    *)
(***************************************************************************)
\* The entry each operator has typed, the dossier not yet chosen.
TypedEntry(truck_count) ==
  [EmptyFormData EXCEPT !.truck_count = truck_count, !.bl_number = "X",
                        !.tc_number = "X", !.seal_number = "X"]

\* An operator of BIG_BAG whose form is open, the entry typed and the programs
\* being fetched.
AtForm(truck_count, isPlatformLocked) ==
  [SignedIn([role |-> "operator", platform_assignment |-> "BIG_BAG"], isPlatformLocked)
     EXCEPT !.component = "dropdown",
            !.formData = TypedEntry(truck_count),
            !.requests = {fetchPrograms("operator", "BIG_BAG")}]

InitStale ==
  /\ shipping_program = ImportedPrograms("IN_PROGRESS")
  /\ production_logs = <<>>
  /\ txn = [c \in Clients |-> IdleTxn]
  /\ rowLock = [f \in {"D1", "D2"} |-> None]
  /\ response = [c \in Clients |-> None]
  /\ accepted = <<>>
  /\ now = 1
  /\ data = NoPrograms
  /\ fetched = Unmounted
  /\ live = NotLoaded
  /\ \E isPlatformLocked \in BOOLEAN :
       ui = [c \in Clients |->
               IF c = "op1" THEN AtForm(2, TRUE) ELSE AtForm(3, isPlatformLocked)]
  /\ sortField = "status"
  /\ sortDirection = "asc"
  /\ metrics = [c \in Clients |-> HudLoading]
  /\ schedule = ScheduleClosed

NextStale ==
  \E c \in Clients :
    \/ EntryForm_mount(c, "dropdown")
    \/ EntryForm_unmount(c)
    \/ \E request \in Requests : fetchPrograms_returns(c, request)
    \/ selectProgram(c, "D1")
    \/ EntryForm_onSubmit(c)
    \/ trigger_activate_program(c)
    \/ update_planned_count_trigger(c)
    \/ Commit(c)
    \/ handleSubmit_returns(c)

SpecStale == InitStale /\ [][NextStale]_vars

(***************************************************************************)
(* The ledger claims                                                       *)
(***************************************************************************)
RECURSIVE SumTrucks(_, _)
\* The sum of truck_count over the rows of `rows` that carry file_number f.
SumTrucks(rows, f) ==
  IF rows = <<>> THEN 0
  ELSE (IF Head(rows).file_number = f THEN Head(rows).truck_count ELSE 0)
       + SumTrucks(Tail(rows), f)

\* The contractual unit count of dossier f, as imported.
InitialCount(f) == ImportedPrograms("IN_PROGRESS")[f].planned_count

\* Whether dossier f was imported with status PENDING.
ImportedPending(f) ==
  \A s \in {"IN_PROGRESS", "COMPLETED"} : ImportedPrograms(s)[f].status = "PENDING"

\* The step is the end of the INSERT transaction of client c.
InsertEnds(c) == txn[c].pc # "idle" /\ txn'[c].pc = "idle"

\* C1: for every dossier, under every interleaving of the clients' inserts,
\* planned_count equals the imported count minus the sum of the truck counts of
\* the inserts accepted against its file_number: no decrement is lost.
C1_NoDecrementLost ==
  \A f \in DOMAIN shipping_program :
    shipping_program[f].planned_count = InitialCount(f) - SumTrucks(accepted, f)

\* Two inserts of 5 and 4 trucks against D1 (imported with 12) were in flight
\* together, both are committed, and D1 stands at 3.
C1_Witness ==
  /\ \E i, j \in DOMAIN accepted :
       /\ accepted[i].file_number = "D1" /\ accepted[i].truck_count = 5
       /\ accepted[j].file_number = "D1" /\ accepted[j].truck_count = 4
       /\ accepted[i].overlapped \/ accepted[j].overlapped
  /\ Len(accepted) = 2
  /\ shipping_program["D1"].planned_count = 3

\* C2: after a log is edited through update-by-id, planned_count has moved by
\* the delta of its truck_count, so that it still equals the imported count
\* minus the sum of the current truck_counts of the dossier's logs.
C2_LedgerFollowsEdits ==
  \A f \in DOMAIN shipping_program :
    shipping_program[f].planned_count = InitialCount(f) - SumTrucks(production_logs, f)

\* C3: the insert of a valid log whose file_number matches no shipping_program
\* row writes no dossier row, takes no row lock, raises no error, and ends with
\* the log persisted.
C3_MissingDossierInsertPersists ==
  [][\A c \in Clients :
       (/\ txn[c].pc # "idle"
        /\ txn[c].new.file_number \notin DOMAIN shipping_program
        /\ txn'[c].pc # txn[c].pc)
       => /\ DOMAIN txn'[c].writes = {}
          /\ shipping_program' = shipping_program
          /\ rowLock' = rowLock
          /\ txn'[c].pc = "idle" =>
               /\ response'[c] = "ok"
               /\ production_logs' = Append(production_logs, txn[c].new)]_vars

\* A log whose file_number matches no dossier is persisted, its submit answered ok.
C3_Witness ==
  /\ \E i \in DOMAIN production_logs :
       production_logs[i].file_number \notin DOMAIN shipping_program
  /\ \E c \in Clients : response[c] = "ok"

\* C4: an insert whose truck_count exceeds the dossier's current planned_count
\* is accepted: the log is persisted and planned_count becomes the negative
\* value planned_count - truck_count, without clamping at 0.
C4_OverbookingAccepted ==
  [][\A c \in Clients :
       (/\ InsertEnds(c)
        /\ txn[c].new.file_number \in DOMAIN shipping_program
        /\ txn[c].new.truck_count
             > shipping_program[txn[c].new.file_number].planned_count)
       => /\ response'[c] = "ok"
          /\ production_logs' = Append(production_logs, txn[c].new)
          /\ shipping_program'[txn[c].new.file_number].planned_count
               = shipping_program[txn[c].new.file_number].planned_count
                 - txn[c].new.truck_count
          /\ shipping_program'[txn[c].new.file_number].planned_count < 0]_vars

\* A dossier stands at a negative planned_count and the overbooking log is stored.
C4_Witness ==
  \E i \in DOMAIN production_logs :
    /\ production_logs[i].file_number \in DOMAIN shipping_program
    /\ shipping_program[production_logs[i].file_number].planned_count < 0
    /\ production_logs[i].truck_count > InitialCount(production_logs[i].file_number)

\* C5: every insert against an existing dossier succeeds, and when it ends a
\* dossier that was PENDING is IN_PROGRESS (any other status is kept), also
\* when several clients submit the first logs against it concurrently.
C5_InsertActivatesPending ==
  [][\A c \in Clients :
       (InsertEnds(c) /\ txn[c].new.file_number \in DOMAIN shipping_program)
       => /\ response'[c] = "ok"
          /\ shipping_program'[txn[c].new.file_number].status
               = IF shipping_program[txn[c].new.file_number].status = "PENDING"
                 THEN "IN_PROGRESS"
                 ELSE shipping_program[txn[c].new.file_number].status]_vars

\* Two first inserts against the PENDING dossier D1 were in flight together,
\* both are committed, and D1 is IN_PROGRESS.
C5_Witness ==
  /\ ImportedPending("D1")
  /\ Len(accepted) = 2
  /\ \A i \in DOMAIN accepted : accepted[i].file_number = "D1"
  /\ \E i \in DOMAIN accepted : accepted[i].overlapped
  /\ \A c \in Clients : response[c] = "ok"
  /\ shipping_program["D1"].status = "IN_PROGRESS"

(***************************************************************************)
(* The classifier claims                                                   *)
(***************************************************************************)
RECURSIVE SumTonnage(_, _)
\* The sum of total_tonnage over the rows of `rows` that carry file_number f.
SumTonnage(rows, f) ==
  IF rows = <<>> THEN 0
  ELSE (IF Head(rows).file_number = f THEN Head(rows).total_tonnage ELSE 0)
       + SumTonnage(Tail(rows), f)

\* progress = round(min(100, actual / planned * 100)) lies in lo..hi, for
\* 0 <= actual <= planned and planned > 0: some n of lo..hi is nearest to the
\* ratio, a tie going up.
ProgressIn(actual, planned, lo, hi) ==
  \E n \in lo..hi :
    /\ 2 * planned * n - planned <= 200 * actual
    /\ 200 * actual < 2 * planned * n + planned

\* The step is fetchData's merge, which sets the dashboard rows.
Merged == fetched.pc = "programs" /\ fetched'.pc = "shown"

\* C6: for every planned quantity >= 0, planned = 0 included, a dossier is
\* classified OVERBOOKED exactly when its actual tonnage exceeds its planned
\* quantity.
C6_OverbookedIffActualExceedsPlanned ==
  \A f \in DOMAIN data :
    (data[f].status = "OVERBOOKED") <=> (data[f].actual_qty > data[f].planned_qty)

\* C7: a dossier with 0 < actual <= planned is COMPLETED exactly when its
\* progress is in 98..100 and IN_PROGRESS exactly when its progress is below 98.
C7_ToleranceBand ==
  \A f \in DOMAIN data :
    (0 < data[f].actual_qty /\ data[f].actual_qty <= data[f].planned_qty)
    => /\ (data[f].status = "COMPLETED")
            <=> ProgressIn(data[f].actual_qty, data[f].planned_qty, 98, 100)
       /\ (data[f].status = "IN_PROGRESS")
            <=> ProgressIn(data[f].actual_qty, data[f].planned_qty, 0, 97)

\* Planned 100 t each: D1 with 99 t loaded is COMPLETED, D2 with 97 t loaded
\* is IN_PROGRESS.
C7_Witness ==
  /\ DOMAIN data = {"D1", "D2"}
  /\ data["D1"].planned_qty = 100 * Tonne /\ data["D1"].actual_qty = 99 * Tonne
  /\ data["D1"].status = "COMPLETED"
  /\ data["D2"].planned_qty = 100 * Tonne /\ data["D2"].actual_qty = 97 * Tonne
  /\ data["D2"].status = "IN_PROGRESS"

\* C8: at every fetch, a dossier is classified PENDING exactly when the
\* total_tonnage of the logs carrying its file_number sums to 0.
C8_PendingIffNothingLoaded ==
  [][Merged =>
       \A f \in DOMAIN data' :
         (data'[f].status = "PENDING") <=> (SumTonnage(production_logs, f) = 0)]_vars

\* Logs are stored, none of them with tonnage for D2: D2 is PENDING, and D1,
\* with less than 1 % of its plan loaded, is not.
C8_Witness ==
  /\ DOMAIN data = {"D1", "D2"}
  /\ production_logs # <<>>
  /\ data["D2"].status = "PENDING"
  /\ data["D1"].planned_qty = 100 * Tonne
  /\ data["D1"].actual_qty > 0 /\ data["D1"].progress = 0
  /\ data["D1"].status = "IN_PROGRESS"

(***************************************************************************)
(* Claims about the rollups                                                *)
(***************************************************************************)
\* The calendar day before a date.
PreviousDay(date) ==
  IF date.day > 1 THEN [date EXCEPT !.day = @ - 1]
  ELSE IF date.month > 1
       THEN [year |-> date.year, month |-> date.month - 1,
             day |-> DaysInMonth(date.year, date.month - 1)]
       ELSE [year |-> date.year - 1, month |-> 12, day |-> 31]

\* The industrial day of a timestamp, as the claim states it.
IndustrialDay(ts) == IF HourOf(ts) < 6 THEN PreviousDay(DateOf(ts)) ELSE DateOf(ts)

\* The logs created at the given instant.
LogsAt(ts) == {i \in DOMAIN production_logs : production_logs[i].created_at = ts}

BucketOf(fl) ==
  [production_date |-> fl.production_date, production_month |-> fl.production_month,
   production_year |-> fl.production_year]

BucketRule ==
  LET fls == formatted_logs(production_logs)
      days == [i \in DOMAIN production_logs |->
                 IndustrialDay(production_logs[i].created_at)]
  IN /\ \A i \in DOMAIN production_logs :
          /\ fls[i].production_date = days[i]
          /\ fls[i].production_month = [year |-> days[i].year, month |-> days[i].month]
          /\ fls[i].production_year = days[i].year
     /\ {BucketOf(r) : r \in daily_production_stats(production_logs)}
          = {[production_date |-> days[i],
              production_month |-> [year |-> days[i].year, month |-> days[i].month],
              production_year |-> days[i].year] : i \in DOMAIN production_logs}
     /\ \A i \in LogsAt(Instant(2024, 6, 2, 5, 30)) :
          fls[i].production_date = [year |-> 2024, month |-> 6, day |-> 1]
     /\ \A i \in LogsAt(Instant(2024, 6, 2, 6, 1)) :
          fls[i].production_date = [year |-> 2024, month |-> 6, day |-> 2]
     /\ \A i \in LogsAt(Instant(2024, 3, 1, 5, 59)) :
          fls[i].production_month = [year |-> 2024, month |-> 2]

BucketStable ==
  \A i \in DOMAIN production_logs :
    formatted_logs(production_logs)[i].production_date
      = IndustrialDay(accepted[i].created_at)

\* C9: every log is bucketed to the date, month and year of the previous
\* calendar day when its hour is below 6 and of its own calendar day otherwise
\* (05:30 on June 2 to June 1, 06:01 on June 2 to June 2, 05:59 on the first of
\* a month to the previous month), the view's rows carry exactly these buckets,
\* and whenever the view is read again a log is in the bucket of the instant it
\* was stored at.
C9_IndustrialDayBucket == BucketRule /\ BucketStable

\* C9 witness: logs of 05:59 on March 1 (bucketed to February 29), edited
\* since, and of 05:30 on June 2 (bucketed to June 1) are stored.
C9_Witness ==
  /\ \E i \in LogsAt(Instant(2024, 3, 1, 5, 59)) :
       /\ formatted_logs(production_logs)[i].production_date
            = [year |-> 2024, month |-> 2, day |-> 29]
       /\ production_logs[i].truck_count # accepted[i].truck_count
  /\ \E i \in LogsAt(Instant(2024, 6, 2, 5, 30)) :
       formatted_logs(production_logs)[i].production_date
         = [year |-> 2024, month |-> 6, day |-> 1]

\* The sequence without its i-th element.
Without(seq, i) == SubSeq(seq, 1, i - 1) \o SubSeq(seq, i + 1, Len(seq))

\* The view's row of a group, all zero without one.
StatsRow(logs, key) ==
  IF \E r \in daily_production_stats(logs) : GroupKey(r) = key
  THEN CHOOSE r \in daily_production_stats(logs) : GroupKey(r) = key
  ELSE key @@ [total_trucks |-> 0, total_tonnage |-> 0, morning_tonnage |-> 0,
               afternoon_tonnage |-> 0, night_tonnage |-> 0, active_operators |-> 0]

\* A slice of the dashboard's shift chart, zero when it is not drawn.
Slice(memo, name) ==
  IF name \in DOMAIN memo.shiftTotals THEN memo.shiftTotals[name] ELSE 0

\* C10: in the daily_production_stats view and in the live dashboard, the
\* tonnage of a log stored with shift EVENING is counted in the afternoon
\* bucket, not in the morning or night bucket, and not dropped; the stored row
\* keeps shift EVENING.
C10_EveningCountsAsAfternoon ==
  /\ \A i \in DOMAIN production_logs :
       production_logs[i].shift = "EVENING" =>
         LET key == GroupKey(formatted_logs(production_logs)[i])
             with == StatsRow(production_logs, key)
             without == StatsRow(Without(production_logs, i), key)
         IN /\ with.afternoon_tonnage
                 = without.afternoon_tonnage + production_logs[i].total_tonnage
            /\ with.total_tonnage
                 = without.total_tonnage + production_logs[i].total_tonnage
            /\ with.morning_tonnage = without.morning_tonnage
            /\ with.night_tonnage = without.night_tonnage
  /\ \A i \in DOMAIN live.data :
       live.data[i].shift = "EVENING" =>
         LET without == LiveMemo(Without(live.data, i))
             name == OperatorName(live.data[i])
             before == IF name \in DOMAIN without.chartData
                       THEN without.chartData[name]
                       ELSE [MORNING |-> 0, AFTERNOON |-> 0, NIGHT |-> 0]
         IN /\ Slice(live.memo, "Afternoon")
                 = Slice(without, "Afternoon") + live.data[i].total_tonnage
            /\ live.memo.grandTotal = without.grandTotal + live.data[i].total_tonnage
            /\ Slice(live.memo, "Morning") = Slice(without, "Morning")
            /\ Slice(live.memo, "Night") = Slice(without, "Night")
            /\ live.memo.chartData[name].AFTERNOON
                 = before.AFTERNOON + live.data[i].total_tonnage
            /\ live.memo.chartData[name].MORNING = before.MORNING
            /\ live.memo.chartData[name].NIGHT = before.NIGHT
  /\ \A i \in DOMAIN accepted :
       accepted[i].shift = "EVENING" => production_logs[i].shift = "EVENING"

\* C10 witness: an EVENING log, edited since it was stored, shares its group
\* and the dashboard's data with an AFTERNOON log, and both rollups show the
\* two tonnages together in the afternoon bucket.
C10_Witness ==
  \E i, j \in DOMAIN production_logs :
    /\ production_logs[i].shift = "EVENING"
    /\ production_logs[i].total_tonnage # accepted[i].total_tonnage
    /\ production_logs[j].shift = "AFTERNOON"
    /\ GroupKey(formatted_logs(production_logs)[i])
         = GroupKey(formatted_logs(production_logs)[j])
    /\ StatsRow(production_logs,
                GroupKey(formatted_logs(production_logs)[i])).afternoon_tonnage
         = production_logs[i].total_tonnage + production_logs[j].total_tonnage
    /\ live.data = production_logs
    /\ Slice(live.memo, "Afternoon")
         = production_logs[i].total_tonnage + production_logs[j].total_tonnage

(***************************************************************************)
(* The lookup claims                                                       *)
(***************************************************************************)
\* The lookup of client c made with `request` ends in this step.
LookupEnds(c, request) ==
  /\ request \in ui[c].requests
  /\ request.kind \in {"lookup", "rpc"}
  /\ ~ui'[c].isSearching

\* The request was built by a render that had the caller's profile.
OfLoadedSession(c, request) ==
  /\ request.userRole = ui[c].profile.role
  /\ request.platformAssignment = ui[c].profile.platform_assignment

\* The dossiers of platform q that the term matches, letter case ignored.
Matches(term, q) ==
  {f \in DOMAIN shipping_program :
     ilike(f, term) /\ shipping_program[f].platform_section = q}

\* C11: when a caller who is no admin and is assigned BIG_BAG or 50KG looks up
\* a term that matches, letter case ignored, no dossier of its platform but a
\* dossier of the other platform, the lookup ends with the access-denied
\* message naming that platform and not with the not-found alert.
C11_CrossPlatformLookupDenied ==
  [][\A c \in Clients, request \in Requests, p, q \in {"BIG_BAG", "50KG"} :
       ( /\ LookupEnds(c, request)
         /\ OfLoadedSession(c, request)
         /\ ui[c].profile.role # "admin"
         /\ ui[c].profile.platform_assignment = p
         /\ q # p
         /\ Matches(request.term, p) = {}
         /\ Matches(request.term, q) # {} )
       => /\ ui'[c].crossPlatformError = q
          /\ ui'[c].alert # "not_found"]_vars

\* The answer to `request` of client c arrives in this step.
Returns(c, request) == request \in ui[c].requests /\ request \notin ui'[c].requests

\* The programs a caller restricted to no platform is to see in the dropdown.
OpenPrograms ==
  {shipping_program[f] : f \in {g \in DOMAIN shipping_program :
                                  shipping_program[g].status # "COMPLETED"}}

\* C12: a caller who is no admin and is assigned BIG_BAG or 50KG is never
\* returned a dossier of another platform by the lookup nor offered one by the
\* selection list; an admin and a caller assigned BOTH get the dossiers of
\* every platform.
C12_PlatformScope ==
  [][\A c \in Clients, request \in Requests :
       /\ ( /\ Returns(c, request)
            /\ request.kind = "fetchPrograms"
            /\ ui'[c].userRole = "operator"
            /\ ui'[c].platformAssignment \in {"BIG_BAG", "50KG"} )
          => \A program \in ui'[c].availablePrograms :
               program.platform_section = ui'[c].platformAssignment
       /\ ( /\ LookupEnds(c, request)
            /\ ui'[c].currentStock # <<>>
            /\ ui'[c].userRole = "operator"
            /\ ui'[c].platformAssignment \in {"BIG_BAG", "50KG"} )
          => shipping_program[ui'[c].formData.file_number].platform_section
               = ui'[c].platformAssignment
       /\ ( /\ Returns(c, request)
            /\ request.kind = "fetchPrograms"
            /\ OfLoadedSession(c, request)
            /\ (request.userRole = "admin" \/ request.platformAssignment = "BOTH") )
          => ui'[c].availablePrograms = OpenPrograms]_vars

\* C13: the form flags low stock exactly when 0 < stock < CRITICAL_THRESHOLD:
\* a dossier with stock 5, 0 or below 0 is not flagged, one with stock 1..4 is.
C13_LowStockFlag ==
  \A c \in Clients :
    ui[c].isLowStock <=>
      /\ ui[c].currentStock # <<>>
      /\ 0 < ui[c].currentStock[1]
      /\ ui[c].currentStock[1] < 5

Contains(request) ==
  {f \in DOMAIN shipping_program :
     /\ includes(LowerChars(Chars(f)), LowerChars(Chars(request.term)))
     /\ shipping_program[f].platform_section
          \in PlatformFilter(request.userRole, request.platformAssignment)}

\* C19: the dossier lookup finds a dossier whenever the term is a substring of
\* its file_number, letter case ignored; a term that is a proper substring of
\* the one file_number it occurs in resolves that dossier.
C19_PartialMatchLookup ==
  [][\A c \in Clients, request \in Requests :
       ( /\ request \in ui[c].requests
         /\ request \notin ui'[c].requests
         /\ request.kind = "lookup"
         /\ request.term # ""
         /\ Cardinality(Contains(request)) = 1 )
       => /\ ui'[c].currentStock # <<>>
          /\ ui'[c].alert # "not_found"]_vars

(***************************************************************************)
(* The monitor claims, second part                                         *)
(***************************************************************************)
\* The derived columns of the dashboard rows.
Derived(rows) ==
  [f \in DOMAIN rows |->
     [actual_qty |-> rows[f].actual_qty, progress |-> rows[f].progress,
      status |-> rows[f].status]]

\* The programs with every planned_count replaced by k.
WithLedger(programs, k) ==
  [f \in DOMAIN programs |-> [programs[f] EXCEPT !.planned_count = k]]

LedgerValues == {-1, 0, 7}

\* C15: actual_qty, the sum of total_tonnage over the logs of the dossier, and
\* the progress and status derived from it come from production_logs and
\* planned_quantity only: a store that differs in planned_count values alone
\* gives the same three columns for every dossier, and neither step of the
\* fetch writes to the store.
C15_DerivedFromRawLogs ==
  [][/\ Merged =>
          /\ \A f \in DOMAIN data' :
               /\ data'[f].actual_qty = SumTonnage(production_logs, f)
               /\ data'[f].progress
                    = ProgramStatus(fetched.programs[f].planned_quantity,
                                    SumTonnage(production_logs, f)).progress
               /\ data'[f].status
                    = ProgramStatus(fetched.programs[f].planned_quantity,
                                    SumTonnage(production_logs, f)).status
          /\ \A k \in LedgerValues :
               Derived(dashboardData(WithLedger(fetched.programs, k), production_logs))
                 = Derived(data')
     /\ fetched' # fetched =>
          /\ shipping_program' = shipping_program
          /\ production_logs' = production_logs]_vars

\* C15 witness: the dashboard shows D2 with tonnage loaded after its ledger
\* has been counted down from 3 by the insert trigger.
C15_Witness ==
  /\ fetched.pc = "shown"
  /\ DOMAIN data = {"D1", "D2"}
  /\ data["D2"].actual_qty > 0
  /\ data["D2"].planned_trucks < 3
  /\ data["D2"].status = "IN_PROGRESS"

\* The rows in the order the programs query returned them.
InOrder(rows, arrival) == [i \in 1..Len(arrival) |-> rows[arrival[i]]]

\* Every order in which the query can return the programs.
Arrivals(S) ==
  {a \in [1..Cardinality(S) -> S] : \A i, j \in 1..Cardinality(S) : a[i] = a[j] => i = j}

\* Attention priority: OVERBOOKED before IN_PROGRESS before PENDING before COMPLETED.
Attention == <<"OVERBOOKED", "IN_PROGRESS", "PENDING", "COMPLETED">>

Rank(status) == CHOOSE i \in 1..4 : Attention[i] = status

Statuses(list) == [i \in 1..Len(list) |-> list[i].status]

Reverse(seq) == [i \in 1..Len(seq) |-> seq[Len(seq) + 1 - i]]

\* C16: sorted by status ascending, which is the default, the list shows no
\* dossier before another of strictly higher attention priority (OVERBOOKED,
\* IN_PROGRESS, PENDING, COMPLETED); with the direction toggled the statuses
\* come in exactly the reverse order. The monitor opens with the default.
C16_StatusSortOrder ==
  /\ fetched.pc = "unmounted" => (sortField = "status" /\ sortDirection = "asc")
  /\ sortField = "status" =>
       \A arrival \in Arrivals(DOMAIN data) :
         LET list == filteredAndSortedData(InOrder(data, arrival), sortField, sortDirection)
             asc == filteredAndSortedData(InOrder(data, arrival), sortField, "asc")
         IN /\ Len(list) = Len(arrival)
            /\ {list[i] : i \in 1..Len(list)} = {data[f] : f \in DOMAIN data}
            /\ sortDirection = "asc" =>
                 \A i, j \in 1..Len(list) :
                   i < j => Rank(list[i].status) <= Rank(list[j].status)
            /\ sortDirection = "desc" =>
                 /\ Statuses(list) = Reverse(Statuses(asc))
                 /\ \A i, j \in 1..Len(list) :
                      i < j => Rank(list[i].status) >= Rank(list[j].status)

\* C16 witness: a PENDING and an IN_PROGRESS dossier are shown and the status
\* column has been toggled to descending.
C16_Witness ==
  /\ fetched.pc = "shown"
  /\ sortField = "status" /\ sortDirection = "desc"
  /\ DOMAIN data = {"D1", "D2"}
  /\ data["D1"].status = "IN_PROGRESS"
  /\ data["D2"].status = "PENDING"
  /\ Statuses(filteredAndSortedData(InOrder(data, <<"D1", "D2">>), sortField, sortDirection))
       = <<"PENDING", "IN_PROGRESS">>

(***************************************************************************)
(* The entry form claims                                                   *)
(***************************************************************************)
\* The entry lacks what the claim requires of it.
Incomplete(formData) ==
  \/ formData.truck_count <= 0
  \/ /\ formData.category = "EXPORT"
     /\ "" \in {formData.bl_number, formData.tc_number, formData.seal_number}

\* The step is a submission of client c that the form turned down.
TurnedDown(c) == ui[c].alert # "validation" /\ ui'[c].alert = "validation"

\* The step is a submission of client c that went on to the insert.
SentOff(c) == ~ui[c].loading /\ ui'[c].loading

\* C17: a submission with truck_count <= 0, or of an EXPORT entry without BL,
\* TC or seal number, is rejected before any write: no log is created and no
\* dossier changes. A complete entry, also one submitted after a rejection, is
\* sent to the store as typed and no log with truck_count <= 0 is ever stored.
C17_IncompleteEntryRejected ==
  [][\A c \in Clients :
       /\ SentOff(c) =>
            /\ ~Incomplete(ui[c].formData)
            /\ txn'[c].pc # "idle"
            /\ response'[c] # "error"
            /\ txn'[c].new.truck_count = ui[c].formData.truck_count
       /\ TurnedDown(c) =>
            /\ Incomplete(ui[c].formData)
            /\ production_logs' = production_logs
            /\ shipping_program' = shipping_program
            /\ txn' = txn
       /\ \A i \in DOMAIN production_logs' : production_logs'[i].truck_count > 0]_vars

\* C17 witness: after a rejected submission the entry was completed and
\* submitted again, and its insert is about to commit; nothing was written
\* in between.
C17_Witness ==
  /\ ui["op1"].alert = "validation"
  /\ ui["op1"].loading
  /\ txn["op1"].pc = "commit"
  /\ txn["op1"].new.truck_count = 2
  /\ production_logs = <<>>

\* C18: every stored log of category EXPORT carries a file_number that is not
\* empty: the form writes no EXPORT entry without a dossier number.
C18_ExportLogHasDossier ==
  \A i \in DOMAIN production_logs :
    production_logs[i].category = "EXPORT" => production_logs[i].file_number # ""

\* The step is a dossier selection of client c.
Selects(c) ==
  /\ ui'[c].currentStock # <<>>
  /\ ui'[c].dossierSearch = "D1"
  /\ ui'[c].currentStock # ui[c].currentStock \/ ui[c].dossierSearch # "D1"

\* C20: two operators who chose the same dossier at stock S and submit a and b
\* trucks are neither of them turned down, both logs are stored, the ledger
\* stands at S - a - b once both inserts are committed, and the next dossier
\* selection by either operator then shows S - a - b.
C20_StaleSubmissionsBothCount ==
  [][/\ \A c \in Clients :
          /\ ui'[c].alert # "error"
          /\ TurnedDown(c) => Incomplete(ui[c].formData)
          /\ SentOff(c) => txn'[c].pc # "idle"
     /\ (\A c \in Clients : txn'[c].pc = "idle") =>
          shipping_program'["D1"].planned_count
            = InitialCount("D1") - SumTrucks(production_logs', "D1")
     /\ \A c \in Clients :
          ( /\ Selects(c)
            /\ SumTrucks(production_logs, "D1") = 2 + 3
            /\ \A d \in Clients : txn[d].pc = "idle" )
          => ui'[c].currentStock = <<InitialCount("D1") - 2 - 3>>]_vars

(***************************************************************************)
(* The reconciliation claims                                               *)
(***************************************************************************)
\* C21: whenever submissions have overbooked a dossier, its planned_count
\* ledger standing below 0 with tonnage loaded, the next derivation of its
\* execution status yields OVERBOOKED.
C21_OverbookingSurfaces ==
  [][Merged =>
       \A f \in DOMAIN data' :
         (fetched.programs[f].planned_count < 0 /\ data'[f].actual_qty > 0)
         => data'[f].status = "OVERBOOKED"]_vars

\* C22: retrying the insert of the same log after the client saw a failure
\* does not apply the decrement twice: when the log of the retried insert is
\* already stored, the retry's commit adds no row and leaves every dossier's
\* planned_count as it is.
C22_RetriedInsertCountsOnce ==
  [][\A c \in Clients :
       ( /\ txn[c].pc = "commit"
         /\ txn'[c].pc = "idle"
         /\ ui[c].loading
         /\ ui[c].alert = "error"
         /\ \E i \in DOMAIN production_logs : production_logs[i] = txn[c].new )
       => /\ production_logs' = production_logs
          /\ \A f \in DOMAIN shipping_program :
               shipping_program'[f].planned_count = shipping_program[f].planned_count]_vars

\* C23: applying the same edit of a log again leaves every dossier's
\* planned_count at the value it had after the first application: an edit that
\* finds the log already carrying the new truck_count never shifts the ledger.
C23_RetriedEditKeepsLedger ==
  [][\A c \in Clients :
       ( /\ txn' = txn
         /\ response'[c] = "ok"
         /\ production_logs' = production_logs
         /\ \E id \in DOMAIN production_logs :
              production_logs[id].truck_count \in LedgerEdits )
       => \A f \in DOMAIN shipping_program :
            shipping_program'[f].planned_count = shipping_program[f].planned_count]_vars

\* An edited log of dossier D1 (4 trucks corrected to 8) with the ledger at
\* the value the inserts left.
C23_Witness ==
  \E id \in DOMAIN production_logs :
    /\ production_logs[id].file_number = "D1"
    /\ production_logs[id].truck_count = 8
    /\ accepted[id].truck_count = 4
    /\ \E c \in Clients : response[c] = "ok"
    /\ shipping_program["D1"].planned_count = InitialCount("D1") - SumTrucks(accepted, "D1")

(* The HUD claims *)
\* 06:00 of today when the hour of instant t is 6 or later, 06:00 of
\* yesterday otherwise.
WindowStart(t) ==
  (IF HourOf(t) >= 6 THEN (t \div 1440) * 1440 ELSE (t \div 1440) * 1440 - 1440) + 360

\* The production_date of instant t under the aggregation view's rule.
ProductionDate(t) == formatted_logs(<<[created_at |-> t]>>)[1].production_date

C25_OnlyMatchedRowChanges ==
  [][\A c \in Clients :
       (InsertEnds(c) /\ Len(production_logs') = Len(production_logs) + 1)
       => \A g \in DOMAIN shipping_program :
            /\ g # txn[c].new.file_number => shipping_program'[g] = shipping_program[g]
            /\ [shipping_program'[g] EXCEPT
                  !.planned_count = shipping_program[g].planned_count,
                  !.status = shipping_program[g].status] = shipping_program[g]]_vars

\* A log of dossier D1 and a log typed d1 are stored: the row of D1 has been
\* lowered by the first only, its planned_quantity and the row of D2 are as
\* imported.
C25_Witness ==
  /\ \E i \in DOMAIN production_logs :
       production_logs[i].file_number = "D1" /\ accepted[i].truck_count > 0
  /\ \E i \in DOMAIN production_logs :
       production_logs[i].file_number = "d1" /\ accepted[i].truck_count > 0
  /\ shipping_program["D1"].planned_count = InitialCount("D1") - SumTrucks(accepted, "D1")
  /\ shipping_program["D1"].status = "IN_PROGRESS"
  /\ shipping_program["D1"].planned_quantity
       = ImportedPrograms("IN_PROGRESS")["D1"].planned_quantity
  /\ \E s \in {"IN_PROGRESS", "COMPLETED"} :
       shipping_program["D2"] = ImportedPrograms(s)["D2"]

\* C26: submitting a log with category LOCAL or DEBARDAGE never changes any
\* dossier's planned_count or status, also when the operator selected a
\* dossier under the EXPORT tab before switching the tab and submitting.
C26_NonExportLeavesLedger ==
  [][\A c \in Clients :
       (InsertEnds(c) /\ txn[c].new.category \in {"LOCAL", "DEBARDAGE"})
       => \A f \in DOMAIN shipping_program :
            /\ shipping_program'[f].planned_count = shipping_program[f].planned_count
            /\ shipping_program'[f].status = shipping_program[f].status]_vars

(* The entry form claims, second part *)
\* C27: after an operator's successful insert against a selected dossier, no
\* other client acting on it, the form's currentStock equals the server's
\* planned_count of that dossier.
C27_StockFollowsLedger ==
  [][\A c \in Clients :
       ( /\ ui[c].loading /\ ~ui'[c].loading
         /\ response[c] = "ok"
         /\ ui'[c].component # None
         /\ ui[c].currentStock # <<>>
         /\ ui[c].formData.file_number \in DOMAIN shipping_program
         /\ \A d \in Clients \ {c} : ui[d].component = None /\ txn[d].pc = "idle" )
       => ui'[c].currentStock =
            <<shipping_program[ui[c].formData.file_number].planned_count>>]_vars

(* The schedule claims *)
\* C28: for every dossier that is not COMPLETED, the remaining truck count
\* shown by the schedule view, and remaining_trucks of the view
\* shipping_program_dashboard, equal max(0, contractual initial count - total
\* trucks loaded so far), planned_count being the value the insert trigger
\* maintains.
C28_RemainingFromInitialCount ==
  /\ \A f \in DOMAIN shipping_program_dashboard(shipping_program, production_logs) :
       shipping_program_dashboard(shipping_program, production_logs)[f].remaining_trucks
         = IF InitialCount(f) - SumTrucks(production_logs, f) > 0
           THEN InitialCount(f) - SumTrucks(production_logs, f) ELSE 0
  /\ schedule.pc = "shown" =>
       \A f \in DOMAIN schedule.rows :
         remaining(schedule.rows[f])
           = IF InitialCount(f) - schedule.rows[f].total_loaded_cumulative > 0
             THEN InitialCount(f) - schedule.rows[f].total_loaded_cumulative ELSE 0

\* C29: the stored status of a dossier changes only by the step PENDING to
\* IN_PROGRESS: no log insert or log edit moves a dossier back to PENDING,
\* alters a status that is IN_PROGRESS or COMPLETED, or stores COMPLETED.
C29_StatusOnlyActivates ==
  [][\A f \in DOMAIN shipping_program :
       shipping_program'[f].status # shipping_program[f].status
       => /\ shipping_program[f].status = "PENDING"
          /\ shipping_program'[f].status = "IN_PROGRESS"]_vars

\* D1, imported PENDING, is IN_PROGRESS after its first log; D2, imported
\* COMPLETED, has a log of its own and is still COMPLETED; a log was edited.
C29_Witness ==
  /\ ImportedPending("D1")
  /\ \E i \in DOMAIN accepted : accepted[i].file_number = "D1"
  /\ shipping_program["D1"].status = "IN_PROGRESS"
  /\ \E i \in DOMAIN accepted : accepted[i].file_number = "D2"
  /\ shipping_program["D2"].status = "COMPLETED"
  /\ \E i \in DOMAIN production_logs :
       production_logs[i].truck_count # accepted[i].truck_count

(* The rollup claims, second part *)
RECURSIVE TrucksOver(_, _)
\* The sum of truck_count over the formatted logs of group key.
TrucksOver(fls, key) ==
  IF fls = <<>> THEN 0
  ELSE (IF GroupKey(Head(fls)) = key THEN Head(fls).truck_count ELSE 0)
       + TrucksOver(Tail(fls), key)

\* C30: for every (production_date, platform, category) row of the daily
\* rollup, total_trucks equals the sum of truck_count over the logs of that
\* group.
C30_TotalTrucksSumsTruckCount ==
  \A row \in daily_production_stats(production_logs) :
    row.total_trucks
      = TrucksOver(formatted_logs(production_logs),
                   [k \in {"production_date", "production_month", "production_year",
                           "platform", "category"} |-> row[k]])

====
